---- MODULE Spec2Model ----
(***************************************************************************)
(* Model of the arena combat engine (GameLogic) and of the host and test   *)
(* code that drives it.                                                    *)
(*                                                                         *)
(* Number representation.  The engine computes in IEEE doubles; the model  *)
(* computes in fixed point over the integers:                              *)
(*   lengths and positions   whole pixels                                  *)
(*   time (dt, timers)       milliseconds                                  *)
(*   velocities              pixels per second                             *)
(*   angles                  milliradians                                  *)
(*   rates (fireRate)        thousandths of a shot per second              *)
(*   Math.random()           thousandths, 0..999                           *)
(* A product v*dt is therefore divided by 1000 and truncated toward zero.  *)
(* A double NaN is the distinguished value NaN.                            *)
(***************************************************************************)
EXTENDS Integers, Sequences, FiniteSets, TLC

(***************************************************************************)
(* constants.ts                                                            *)
(***************************************************************************)
CANVAS_WIDTH == 1280
CANVAS_HEIGHT == 720
WALL_THICKNESS == 50
ARENA_X == WALL_THICKNESS
ARENA_Y == WALL_THICKNESS
ARENA_WIDTH == CANVAS_WIDTH - (WALL_THICKNESS * 2)
ARENA_HEIGHT == CANVAS_HEIGHT - (WALL_THICKNESS * 2)

PLAYER_BASE_SPEED == 300
PLAYER_DASH_SPEED == 900
PLAYER_DASH_DURATION == 250
PLAYER_DASH_COOLDOWN == 2500
PLAYER_MAX_HP == 100

ENEMY_CHASER_HP == 30
ENEMY_CHASER_SPEED == 150
ENEMY_CHASER_DAMAGE == 10
ENEMY_CHASER_SIZE == 32

ENEMY_SHOOTER_HP == 20
ENEMY_SHOOTER_SPEED == 100
ENEMY_SHOOTER_DAMAGE == 10
ENEMY_SHOOTER_SIZE == 28
ENEMY_SHOOTER_RANGE == 400
ENEMY_SHOOTER_FIRE_RATE == 500
ENEMY_SHOOTER_BULLET_SPEED == 200
ENEMY_SHOOTER_BULLET_SIZE == 12

\* GameLogic imports the four TANK constants from constants.ts, which does
\* not define them in this snapshot; the values follow the design text
\* ("higher hp/damage/size and lower speed").
ENEMY_TANK_HP == 80
ENEMY_TANK_SPEED == 60
ENEMY_TANK_DAMAGE == 20
ENEMY_TANK_SIZE == 48

\* literals of GameLogic.ts
PLAYER_SIZE == 32
PLAYER_DAMAGE == 10
PLAYER_FIRE_RATE == 3000
PLAYER_BULLET_SPEED == 600
PLAYER_BULLET_SPREAD == 100
PLAYER_BULLET_SIZE == 8
WAVE_DELAY == 2000
GRACE_DURATION == 1000
HIT_FLASH == 100
SPAWN_PADDING == 50
SHOOTER_BUFFER == 50

(***************************************************************************)
(* Bounds of the model                                                     *)
(***************************************************************************)
\* update()/reset() calls explored from the constructed engine
MaxCalls == 4

\* the wave past which the arena is no longer emptied between updates
MaxWave == 3

\* saturation of the observation clocks (ms)
ClockCap == 3000

(***************************************************************************)
(* Arithmetic of doubles, in fixed point                                   *)
(***************************************************************************)
NaN == -999999

Abs(a) == IF a < 0 THEN -a ELSE a
Min(a, b) == IF a <= b THEN a ELSE b
Max(a, b) == IF a >= b THEN a ELSE b
Sgn(a) == IF a < 0 THEN -1 ELSE IF a > 0 THEN 1 ELSE 0

\* quotient truncated toward zero
Div(a, b) == Sgn(a) * Sgn(b) * (Abs(a) \div Abs(b))

\* quotient rounded to the nearest integer, halves away from zero
RoundDiv(a, b) == Sgn(a) * Sgn(b) * ((2 * Abs(a) + Abs(b)) \div (2 * Abs(b)))

RECURSIVE SqrtSearch(_, _, _)
SqrtSearch(n, lo, hi) ==
  IF lo >= hi THEN lo
  ELSE LET mid == (lo + hi + 1) \div 2
       IN  IF mid * mid <= n THEN SqrtSearch(n, mid, hi)
           ELSE SqrtSearch(n, lo, mid - 1)

\* Math.sqrt, floored
Sqrt(n) == SqrtSearch(n, 0, 2048)

\* Math.atan2(dy, dx) in milliradians, in (-3142, 3142]
Atan2(dy, dx) ==
  IF dx = 0 /\ dy = 0 THEN 0
  ELSE LET ax == Abs(dx)
           ay == Abs(dy)
           z  == (Min(ax, ay) * 1000) \div Max(ax, ay)
           r0 == (z * (785 + ((273 * (1000 - z)) \div 1000))) \div 1000
           r1 == IF ay > ax THEN 1571 - r0 ELSE r0
           r2 == IF dx < 0 THEN 3142 - r1 ELSE r1
       IN  IF dy < 0 THEN -r2 ELSE r2

\* an angle brought back into (-3142, 3142]
WrapAngle(a) ==
  IF a > 3142 THEN a - 6284 ELSE IF a <= -3142 THEN a + 6284 ELSE a

\* Math.sin of an angle in milliradians, times 1000
Sin(a) ==
  LET w  == WrapAngle(a)
      x  == IF w > 1571 THEN 3142 - w ELSE IF w < -1571 THEN -3142 - w ELSE w
      x2 == (x * x) \div 1000
      t3 == Div(x2 * x, 6000)
      t5 == Div(((x2 * x2) \div 1000) * x, 120000)
  IN  Max(-1000, Min(1000, x - t3 + t5))

\* Math.cos of an angle in milliradians, times 1000
Cos(a) == Sin(WrapAngle(a) + 1571)

(***************************************************************************)
(* Collision system                                                        *)
(***************************************************************************)
\* a plausible slip: closed intervals, so boxes that only touch collide
checkCollisionClosed(a, b) ==
  /\ a.x # NaN /\ a.y # NaN /\ b.x # NaN /\ b.y # NaN
  /\ 2 * a.x - a.width <= 2 * b.x + b.width
  /\ 2 * a.x + a.width >= 2 * b.x - b.width
  /\ 2 * a.y - a.height <= 2 * b.y + b.height
  /\ 2 * a.y + a.height >= 2 * b.y - b.height

\* GameLogic.checkCollision; a comparison with a NaN operand is false.
\* Both sides of each comparison are doubled, so that the half of an odd
\* width is exact.
checkCollision(a, b) ==
  /\ a.x # NaN /\ a.y # NaN /\ b.x # NaN /\ b.y # NaN
  /\ 2 * a.x - a.width < 2 * b.x + b.width
  /\ 2 * a.x + a.width > 2 * b.x - b.width
  /\ 2 * a.y - a.height < 2 * b.y + b.height
  /\ 2 * a.y + a.height > 2 * b.y - b.height

\* Math.max(lo, Math.min(hi, v)); NaN propagates
ClampAxis(lo, hi, v) == IF v = NaN THEN NaN ELSE Max(lo, Min(hi, v))

\* a slip: the centre, not the box, is kept within the walls
clampToArenaCentre(entity, nextX, nextY) ==
  [x |-> ClampAxis(ARENA_X, ARENA_X + ARENA_WIDTH, nextX),
   y |-> ClampAxis(ARENA_Y, ARENA_Y + ARENA_HEIGHT, nextY)]

\* GameLogic.clampToArena
clampToArena(entity, nextX, nextY) ==
  LET halfW == entity.width \div 2
      halfH == entity.height \div 2
  IN  [x |-> ClampAxis(ARENA_X + halfW, ARENA_X + ARENA_WIDTH - halfW, nextX),
       y |-> ClampAxis(ARENA_Y + halfH, ARENA_Y + ARENA_HEIGHT - halfH, nextY)]

(***************************************************************************)
(* The ambient random source.  The successive results of Math.random()     *)
(* inside one call of reset() or update() are read off a tape; the tape is *)
(* an input of the call.                                                   *)
(***************************************************************************)
Rand(tape, k) == (tape.seed + k * tape.stride) % 1000

(***************************************************************************)
(* Entities                                                                *)
(***************************************************************************)
\* the value of an optional field that is absent (undefined)
Undef == -1

\* the player object literal of reset()
NewPlayer ==
  [x |-> CANVAS_WIDTH \div 2, y |-> CANVAS_HEIGHT \div 2,
   width |-> PLAYER_SIZE, height |-> PLAYER_SIZE,
   hp |-> PLAYER_MAX_HP, maxHp |-> PLAYER_MAX_HP, speed |-> PLAYER_BASE_SPEED,
   dashCooldown |-> 0, dashTimer |-> 0, dashVx |-> 0, dashVy |-> 0,
   isInvulnerable |-> FALSE, invulnerabilityTimer |-> 0,
   aimAngle |-> 0, damage |-> PLAYER_DAMAGE, fireRate |-> PLAYER_FIRE_RATE,
   lastFired |-> 0, bulletSpeed |-> PLAYER_BULLET_SPEED,
   bulletSpread |-> PLAYER_BULLET_SPREAD]

\* the three enemy object literals of spawnWave()
NewEnemy(id, type, x, y) ==
  [id |-> id, x |-> x, y |-> y,
   width  |-> CASE type = "CHASER" -> ENEMY_CHASER_SIZE
                [] type = "TANK" -> ENEMY_TANK_SIZE
                [] OTHER -> ENEMY_SHOOTER_SIZE,
   height |-> CASE type = "CHASER" -> ENEMY_CHASER_SIZE
                [] type = "TANK" -> ENEMY_TANK_SIZE
                [] OTHER -> ENEMY_SHOOTER_SIZE,
   hp     |-> CASE type = "CHASER" -> ENEMY_CHASER_HP
                [] type = "TANK" -> ENEMY_TANK_HP
                [] OTHER -> ENEMY_SHOOTER_HP,
   maxHp  |-> CASE type = "CHASER" -> ENEMY_CHASER_HP
                [] type = "TANK" -> ENEMY_TANK_HP
                [] OTHER -> ENEMY_SHOOTER_HP,
   speed  |-> CASE type = "CHASER" -> ENEMY_CHASER_SPEED
                [] type = "TANK" -> ENEMY_TANK_SPEED
                [] OTHER -> ENEMY_SHOOTER_SPEED,
   vx |-> 0, vy |-> 0,
   damage |-> CASE type = "CHASER" -> ENEMY_CHASER_DAMAGE
                [] type = "TANK" -> ENEMY_TANK_DAMAGE
                [] OTHER -> ENEMY_SHOOTER_DAMAGE,
   type |-> type, markedForDeletion |-> FALSE, hitTimer |-> 0,
   attackRange |-> IF type = "SHOOTER" THEN ENEMY_SHOOTER_RANGE ELSE Undef,
   fireRate    |-> IF type = "SHOOTER" THEN ENEMY_SHOOTER_FIRE_RATE ELSE Undef,
   lastFired   |-> IF type = "SHOOTER" THEN 0 ELSE Undef,
   bulletSpeed |-> IF type = "SHOOTER" THEN ENEMY_SHOOTER_BULLET_SPEED
                   ELSE Undef]

\* the bullet object literals of fireBullet() and fireEnemyBullet()
NewBullet(id, x, y, size, vx, vy, damage, isEnemy) ==
  [id |-> id, x |-> x, y |-> y, width |-> size, height |-> size,
   vx |-> vx, vy |-> vy, damage |-> damage,
   markedForDeletion |-> FALSE, isEnemy |-> isEnemy]

(***************************************************************************)
(* Wave director                                                           *)
(***************************************************************************)
\* a slip: Math.ceil for Math.floor
WaveSizeRoundedUp(wave) == 2 + ((wave * 3 + 1) \div 2)

\* spawnWave: 2 + Math.floor(currentWave * 1.5)
WaveSize(wave) == 2 + ((wave * 3) \div 2)

\* a slip: the three-type mix starts one wave early
SpawnTypeTankEarly(wave, tape, k) ==
  IF wave >= 2
  THEN [type |-> IF Rand(tape, k) < 200 THEN "TANK"
                 ELSE IF Rand(tape, k) < 600 THEN "SHOOTER" ELSE "CHASER",
        used |-> 1]
  ELSE [type |-> "CHASER", used |-> 0]

\* spawnWave: the type of one enemy, and the number of draws it took
SpawnType(wave, tape, k) ==
  IF wave >= 3
  THEN LET rand == Rand(tape, k)
       IN  [type |-> IF rand < 200 THEN "TANK"
                     ELSE IF rand < 600 THEN "SHOOTER" ELSE "CHASER",
            used |-> 1]
  ELSE IF wave >= 2
  THEN [type |-> IF Rand(tape, k) > 500 THEN "SHOOTER" ELSE "CHASER",
        used |-> 1]
  ELSE [type |-> "CHASER", used |-> 0]

\* spawnWave: the edge and the point on it, from two draws
SpawnPoint(tape, k) ==
  LET edge == (Rand(tape, k) * 4) \div 1000
      r    == Rand(tape, k + 1)
  IN  CASE edge = 0 -> [x |-> ARENA_X + (r * ARENA_WIDTH) \div 1000,
                        y |-> ARENA_Y + SPAWN_PADDING]
        [] edge = 1 -> [x |-> ARENA_X + ARENA_WIDTH - SPAWN_PADDING,
                        y |-> ARENA_Y + (r * ARENA_HEIGHT) \div 1000]
        [] edge = 2 -> [x |-> ARENA_X + (r * ARENA_WIDTH) \div 1000,
                        y |-> ARENA_Y + ARENA_HEIGHT - SPAWN_PADDING]
        [] OTHER    -> [x |-> ARENA_X + SPAWN_PADDING,
                        y |-> ARENA_Y + (r * ARENA_HEIGHT) \div 1000]

\* spawnWave: the loop, from enemy i of n on; ids are fresh object identities
RECURSIVE SpawnLoop(_, _, _, _, _, _)
SpawnLoop(wave, tape, k, id, i, n) ==
  IF i >= n THEN << >>
  ELSE LET t  == SpawnType(wave, tape, k)
           pt == SpawnPoint(tape, k + t.used)
       IN  << NewEnemy(id, t.type, pt.x, pt.y) >>
             \o SpawnLoop(wave, tape, k + t.used + 2, id + 1, i + 1, n)

\* GameLogic.spawnWave: the enemies pushed for the wave
spawnWave(wave, tape, k, id) ==
  SpawnLoop(wave, tape, k, id, 0, WaveSize(wave))

\* the number of draws spawnWave takes
SpawnDraws(wave) == WaveSize(wave) * (IF wave >= 2 THEN 3 ELSE 2)

(***************************************************************************)
(* update(): the player                                                    *)
(***************************************************************************)
\* |(dx, dy)| times 1000
Hypot1000(dx, dy) ==
  LET d2 == dx * dx + dy * dy
  IN  IF d2 < 2000 THEN SqrtSearch(d2 * 1000000, 0, 46000)
      ELSE Sqrt(d2) * 1000

\* update, lines 236-248: the movement intent, normalised, times 1000
MoveIntent(inp) ==
  LET my == (IF inp.up THEN -1 ELSE 0) + (IF inp.down THEN 1 ELSE 0)
      mx == (IF inp.left THEN -1 ELSE 0) + (IF inp.right THEN 1 ELSE 0)
      length == Hypot1000(mx, my)
  IN  IF mx # 0 \/ my # 0
      THEN [mx |-> Div(mx * 1000000, length), my |-> Div(my * 1000000, length)]
      ELSE [mx |-> 0, my |-> 0]

\* update, lines 214-219: a timer above zero is decremented by dt
TickDown(t, dt) == IF t > 0 THEN t - dt ELSE t

\* a slip: pressing the dash key again leaves the dashing state
IsDashingUnlessKey(p, inp) == p.dashTimer > 0 /\ ~inp.space

\* update, line 224: the player is mid-dash
IsDashing(p, inp) == p.dashTimer > 0

\* update, lines 275-282 and 356-363: the obstacle loop, from obstacle i on
RECURSIVE ResolveObstacles(_, _, _, _, _)
ResolveObstacles(ent, fx, fy, obs, i) ==
  IF i > Len(obs) THEN [x |-> fx, y |-> fy]
  ELSE LET fx1 == IF checkCollision([ent EXCEPT !.x = fx], obs[i])
                  THEN ent.x ELSE fx
           fy1 == IF checkCollision([ent EXCEPT !.x = fx1, !.y = fy], obs[i])
                  THEN ent.y ELSE fy
       IN  ResolveObstacles(ent, fx1, fy1, obs, i + 1)

\* update, lines 208-219: the aim, and the timers that run down
PlayerTimers(p0, dt, mouseX, mouseY) ==
  [p0 EXCEPT !.aimAngle = Atan2(mouseY - p0.y, mouseX - p0.x),
             !.dashCooldown = TickDown(p0.dashCooldown, dt),
             !.invulnerabilityTimer = TickDown(p0.invulnerabilityTimer, dt)]

\* a slip: the cooldown is not consulted
StartsDashNoCooldown(p1, m, inp) ==
  /\ ~IsDashing(p1, inp)
  /\ inp.space
  /\ (m.mx # 0 \/ m.my # 0)

\* update, line 252: a dash begins
StartsDash(p1, m, inp) ==
  /\ ~IsDashing(p1, inp)
  /\ inp.space /\ p1.dashCooldown <= 0
  /\ (m.mx # 0 \/ m.my # 0)

\* a slip: the end of the dash leaves the shield up
DashTickKeepsShield(p1, dt) ==
  IF p1.dashTimer - dt <= 0
  THEN [p1 EXCEPT !.dashTimer = 0]
  ELSE [p1 EXCEPT !.dashTimer = p1.dashTimer - dt]

\* update, lines 226-233: the dash timer runs down; at 0 the dash is over
DashTick(p1, dt) ==
  IF p1.dashTimer - dt <= 0
  THEN [p1 EXCEPT !.dashTimer = 0, !.isInvulnerable = FALSE]
  ELSE [p1 EXCEPT !.dashTimer = p1.dashTimer - dt]

\* update, lines 253-257: the dash velocity is frozen at dash start
DashBegin(p1, m) ==
  [p1 EXCEPT !.dashTimer = PLAYER_DASH_DURATION,
             !.dashCooldown = PLAYER_DASH_COOLDOWN,
             !.isInvulnerable = TRUE,
             !.dashVx = Div(m.mx * PLAYER_DASH_SPEED, 1000),
             !.dashVy = Div(m.my * PLAYER_DASH_SPEED, 1000)]

\* update, lines 224-267: the dash state after the branch taken
DashState(p1, m, dt, inp) ==
  IF IsDashing(p1, inp) THEN DashTick(p1, dt)
  ELSE IF StartsDash(p1, m, inp) THEN DashBegin(p1, m)
  ELSE p1

\* update, lines 227-228, 260-261, 263-265: the displacement before
\* clamping and obstacle resolution
Displacement(p1, p2, m, dt, inp) ==
  IF IsDashing(p1, inp) \/ StartsDash(p1, m, inp)
  THEN [x |-> Div(p2.dashVx * dt, 1000), y |-> Div(p2.dashVy * dt, 1000)]
  ELSE [x |-> Div(m.mx * Div(p2.speed * dt, 1000), 1000),
        y |-> Div(m.my * Div(p2.speed * dt, 1000), 1000)]

\* update, lines 275-285: the clamped position, resolved against obstacles
PlayerResolved(p2, clamped, obs) ==
  ResolveObstacles(p2, clamped.x, clamped.y, obs, 1)

\* update, lines 270-285: clamp to the arena, resolve obstacles, move
PlayerPlaced(p2, disp, obs) ==
  LET final == PlayerResolved(p2, clampToArena(p2, p2.x + disp.x,
                                               p2.y + disp.y), obs)
  IN  [p2 EXCEPT !.x = final.x, !.y = final.y]

\* what the player part of an update did
PlayerOutcome(p1, p2, disp, m, inp, obs) ==
  [p |-> PlayerPlaced(p2, disp, obs),
   dispX |-> disp.x, dispY |-> disp.y,
   dashing |-> IsDashing(p1, inp), dashStarted |-> StartsDash(p1, m, inp)]

PlayerMoved(p1, p2, m, dt, inp, obs) ==
  PlayerOutcome(p1, p2, Displacement(p1, p2, m, dt, inp), m, inp, obs)

PlayerIntent(p1, m, dt, inp, obs) ==
  PlayerMoved(p1, DashState(p1, m, dt, inp), m, dt, inp, obs)

\* update, lines 208-285: aim, timers, displacement, clamp, obstacles
PlayerStep(p0, dt, inp, mouseX, mouseY, obs) ==
  PlayerIntent(PlayerTimers(p0, dt, mouseX, mouseY), MoveIntent(inp), dt, inp,
               obs)

(***************************************************************************)
(* update(): damage to the player                                          *)
(***************************************************************************)
\* a slip: the post-hit grace timer is not consulted
VulnerableNoGrace(p) == ~p.isInvulnerable

\* a slip: the dash flag is not consulted
VulnerableNoDash(p) == p.invulnerabilityTimer <= 0

\* update, lines 300 and 420: neither dashing nor in post-hit grace
Vulnerable(p) == ~p.isInvulnerable /\ p.invulnerabilityTimer <= 0

\* a slip: the hit does not start the grace
HurtNoGrace(p, damage) ==
  [p EXCEPT !.hp = IF p.hp - damage <= 0 THEN 0 ELSE p.hp - damage]

\* a slip: the floor at zero is forgotten
HurtNoFloor(p, damage) ==
  [p EXCEPT !.hp = p.hp - damage, !.invulnerabilityTimer = GRACE_DURATION]

\* update, lines 301-303 and 421-426: lose hp, floored at 0; start the grace
Hurt(p, damage) ==
  [p EXCEPT !.hp = IF p.hp - damage <= 0 THEN 0 ELSE p.hp - damage,
            !.invulnerabilityTimer = GRACE_DURATION]

(***************************************************************************)
(* update(): the enemies                                                   *)
(***************************************************************************)
IsNaN(ent) == ent.x = NaN \/ ent.y = NaN

\* update, lines 306-332: the desired velocity of an enemy
DesiredVelocity(e, p) ==
  IF IsNaN(e) THEN [vx |-> 0, vy |-> 0]
  ELSE
  LET dx == p.x - e.x
      dy == p.y - e.y
      d2 == dx * dx + dy * dy
      dist == Hypot1000(dx, dy)
      range == IF e.attackRange = Undef \/ e.attackRange = 0
               THEN ENEMY_SHOOTER_RANGE ELSE e.attackRange
      far  == range + SHOOTER_BUFFER
      near == range - SHOOTER_BUFFER
  IN  IF e.type = "CHASER" \/ e.type = "TANK"
      THEN IF d2 > 0
           THEN [vx |-> Div(dx * e.speed * 1000, dist),
                 vy |-> Div(dy * e.speed * 1000, dist)]
           ELSE [vx |-> 0, vy |-> 0]
      ELSE IF d2 > far * far
           THEN [vx |-> Div(dx * e.speed * 1000, dist),
                 vy |-> Div(dy * e.speed * 1000, dist)]
           ELSE IF near > 0 /\ d2 < near * near
           THEN IF d2 = 0 THEN [vx |-> NaN, vy |-> NaN]
                ELSE [vx |-> -Div(dx * e.speed * 1000, dist),
                      vy |-> -Div(dy * e.speed * 1000, dist)]
           ELSE [vx |-> 0, vy |-> 0]

\* GameLogic.fireEnemyBullet
fireEnemyBullet(enemy, p, id) ==
  IF IsNaN(enemy)
  THEN NewBullet(id, NaN, NaN, ENEMY_SHOOTER_BULLET_SIZE, NaN, NaN,
                 enemy.damage, TRUE)
  ELSE
  LET angle == Atan2(p.y - enemy.y, p.x - enemy.x)
      speed == IF enemy.bulletSpeed = Undef \/ enemy.bulletSpeed = 0
               THEN ENEMY_SHOOTER_BULLET_SPEED ELSE enemy.bulletSpeed
  IN  NewBullet(id, enemy.x, enemy.y, ENEMY_SHOOTER_BULLET_SIZE,
                Div(Cos(angle) * speed, 1000), Div(Sin(angle) * speed, 1000),
                enemy.damage, TRUE)

\* update, lines 369-381: the separation loop of one enemy, from other j on;
\* the unit push is rounded to whole pixels
RECURSIVE Separate(_, _, _, _, _, _)
Separate(enemy, i, es, fx, fy, j) ==
  IF j > Len(es) THEN [x |-> fx, y |-> fy]
  ELSE IF j = i \/ ~checkCollision(enemy, es[j])
  THEN Separate(enemy, i, es, fx, fy, j + 1)
  ELSE LET pushX == enemy.x - es[j].x
           pushY == enemy.y - es[j].y
           len   == Hypot1000(pushX, pushY)
       IN  IF len > 0 /\ fx # NaN
           THEN Separate(enemy, i, es,
                         fx + RoundDiv(pushX * 1000, len),
                         fy + RoundDiv(pushY * 1000, len), j + 1)
           ELSE Separate(enemy, i, es, fx, fy, j + 1)

\* update, line 336: a SHOOTER that carries a fire timer and a fire rate
ShooterArmed(enemy) ==
  /\ enemy.type = "SHOOTER"
  /\ enemy.lastFired # Undef
  /\ enemy.fireRate # Undef /\ enemy.fireRate # 0

\* a slip: the shooter's interval is not awaited
ShooterFiresEveryUpdate(enemy, dt) == ShooterArmed(enemy)

\* update, lines 337-338: the accumulated timer has reached 1 / fireRate
ShooterFires(enemy, dt) ==
  /\ ShooterArmed(enemy)
  /\ (enemy.lastFired + dt) * enemy.fireRate >= 1000000

\* a clock that is not running
Off == -1

\* the dt accumulated since enemy id last fired, this update included (Off
\* when it has not fired yet); clocks holds the time up to the last update
SinceShot(clocks, id, dt) ==
  LET S == {c \in clocks : c.id = id}
  IN  IF S = {} THEN Off
      ELSE LET ms == (CHOOSE c \in S : TRUE).ms
           IN  IF ms + dt > ClockCap THEN ClockCap ELSE ms + dt

\* update, lines 298-385: one iteration of the enemy loop.  w is the world
\* being mutated: player, enemies, bullets, the next fresh identity, and the
\* record of what the update has done so far.
EnemyStep(w, i, dt, obs) ==
  LET enemy == w.enemies[i]
      hit == checkCollision(enemy, w.player) /\ Vulnerable(w.player)
      p == IF hit THEN Hurt(w.player, enemy.damage) ELSE w.player
      v == DesiredVelocity(enemy, p)
      shooterArmed == ShooterArmed(enemy)
      lf == enemy.lastFired + dt
      fires == ShooterFires(enemy, dt)
      nextX == IF IsNaN(enemy) \/ v.vx = NaN THEN NaN
               ELSE enemy.x + Div(v.vx * dt, 1000)
      nextY == IF IsNaN(enemy) \/ v.vy = NaN THEN NaN
               ELSE enemy.y + Div(v.vy * dt, 1000)
      clamped == clampToArena(enemy, nextX, nextY)
      resolved == ResolveObstacles(enemy, clamped.x, clamped.y, obs, 1)
      final == Separate(enemy, i, w.enemies, resolved.x, resolved.y, 1)
      e1 == [enemy EXCEPT
               !.vx = v.vx, !.vy = v.vy,
               !.lastFired = IF shooterArmed
                             THEN (IF fires THEN 0 ELSE lf) ELSE @,
               !.hitTimer = IF @ > 0 THEN @ - dt ELSE @,
               !.x = final.x, !.y = final.y]
  IN  [w EXCEPT
         !.player = p,
         !.enemies[i] = e1,
         !.bullets = IF fires
                     THEN Append(@, fireEnemyBullet(enemy, p, w.nextId))
                     ELSE @,
         !.nextId = IF fires THEN @ + 1 ELSE @,
         !.hurts = IF hit THEN @ + 1 ELSE @,
         !.dealt = IF hit THEN @ + enemy.damage ELSE @,
         !.drops = IF p.hp < w.player.hp THEN @ + 1 ELSE @,
         !.touches = IF checkCollision(enemy, w.player) THEN @ + 1 ELSE @,
         !.contactLog =
            IF checkCollision(enemy, w.player)
            THEN Append(@, [id |-> enemy.id, damage |-> enemy.damage,
                            vulnerable |-> Vulnerable(w.player),
                            hpAt |-> w.player.hp,
                            loss |-> w.player.hp - p.hp,
                            grace |-> p.invulnerabilityTimer])
            ELSE @,
         !.enemyShots = IF fires THEN @ + 1 ELSE @,
         !.shotLog =
            IF fires
            THEN Append(@, [id |-> enemy.id, type |-> enemy.type,
                            x |-> enemy.x, y |-> enemy.y,
                            damage |-> enemy.damage,
                            targetX |-> p.x, targetY |-> p.y,
                            gap |-> SinceShot(w.sinceShot, enemy.id, dt),
                            accumulated |-> lf,
                            fireRate |-> enemy.fireRate,
                            bullet |-> fireEnemyBullet(enemy, p, w.nextId)])
            ELSE @]

RECURSIVE EnemyLoop(_, _, _, _)
EnemyLoop(w, i, dt, obs) ==
  IF i > Len(w.enemies) THEN w
  ELSE EnemyLoop(EnemyStep(w, i, dt, obs), i + 1, dt, obs)

(***************************************************************************)
(* update(): shooting and bullets                                          *)
(***************************************************************************)
\* a slip: the fire interval is not awaited
FireReadyAlways(p) == TRUE

\* update, lines 390-391: the inter-shot interval 1 / fireRate has elapsed
FireReady(p) == p.lastFired * p.fireRate >= 1000000

\* a slip: the spread is drawn but not applied
fireBulletNoSpread(p, rand, id) ==
  NewBullet(id, p.x, p.y, PLAYER_BULLET_SIZE,
            Div(Cos(p.aimAngle) * p.bulletSpeed, 1000),
            Div(Sin(p.aimAngle) * p.bulletSpeed, 1000),
            p.damage, FALSE)

\* GameLogic.fireBullet; rand is the Math.random() behind the spread
fireBullet(p, rand, id) ==
  LET spread == Div((rand - 500) * p.bulletSpread, 1000)
      angle  == p.aimAngle + spread
  IN  NewBullet(id, p.x, p.y, PLAYER_BULLET_SIZE,
                Div(Cos(angle) * p.bulletSpeed, 1000),
                Div(Sin(angle) * p.bulletSpeed, 1000),
                p.damage, FALSE)

\* update, line 404: the bullet's centre is outside the arena rectangle
OutOfArena(b) ==
  /\ ~IsNaN(b)
  /\ \/ b.x < ARENA_X \/ b.x > ARENA_X + ARENA_WIDTH
     \/ b.y < ARENA_Y \/ b.y > ARENA_Y + ARENA_HEIGHT

\* update, lines 409-414: the bullet overlaps some obstacle
HitsObstacle(b, obs) == \E k \in 1..Len(obs) : checkCollision(b, obs[k])

\* a slip: the loop has no break, so the last overlapping enemy is struck
RECURSIVE LastEnemyHit(_, _, _)
LastEnemyHit(b, es, j) ==
  IF j > Len(es) THEN 0
  ELSE IF LastEnemyHit(b, es, j + 1) > 0 THEN LastEnemyHit(b, es, j + 1)
  ELSE IF checkCollision(b, es[j]) THEN j
  ELSE 0

\* update, lines 431-442: the first enemy, in list order, the bullet overlaps
\* (0 when there is none)
RECURSIVE FirstEnemyHit(_, _, _)
FirstEnemyHit(b, es, j) ==
  IF j > Len(es) THEN 0
  ELSE IF checkCollision(b, es[j]) THEN j
  ELSE FirstEnemyHit(b, es, j + 1)

\* a slip: a bullet marked by a wall or an obstacle still takes part in the
\* collision handling
MayImpactAlways(marked) == TRUE

\* update, line 417: only an unmarked bullet takes part in collision handling
MayImpact(marked) == ~marked

\* a slip: the enemy is flagged only when its hp falls below zero
IsKilledBelowZero(hp) == hp < 0

\* update, line 437: the hit has killed the enemy
IsKilled(hp) == hp <= 0

RemoveAt(seq, i) == SubSeq(seq, 1, i - 1) \o SubSeq(seq, i + 1, Len(seq))

\* update, lines 400-401: the bullet is translated by its velocity
Translated(b0, dt) ==
  [b0 EXCEPT
     !.x = IF IsNaN(b0) \/ b0.vx = NaN THEN NaN
           ELSE b0.x + Div(b0.vx * dt, 1000),
     !.y = IF IsNaN(b0) \/ b0.vy = NaN THEN NaN
           ELSE b0.y + Div(b0.vy * dt, 1000)]

\* update, lines 404-414: a wall or an obstacle marks the bullet
Stopped(b, obs) == b.markedForDeletion \/ OutOfArena(b) \/ HitsObstacle(b, obs)

\* a slip: the owner of the bullet is not looked at
HarmsEnemiesAlso(b) == TRUE

\* update, lines 418 and 428: the side a bullet can harm
HarmsEnemies(b) == ~b.isEnemy

HarmsPlayer(b) == b.isEnemy

\* a slip: the shield is consulted for body contact only
HitsPlayerShielded(b, p, stopped) ==
  /\ MayImpact(stopped) /\ HarmsPlayer(b)
  /\ checkCollision(b, p)

\* update, lines 417-420: an enemy bullet reaches the vulnerable player
HitsPlayer(b, p, stopped) ==
  /\ MayImpact(stopped) /\ HarmsPlayer(b)
  /\ Vulnerable(p) /\ checkCollision(b, p)

\* update, lines 417 and 428-432: the index of the enemy a player bullet
\* strikes (0 when it strikes none)
EnemyStruck(b, es, stopped) ==
  IF MayImpact(stopped) /\ HarmsEnemies(b) THEN FirstEnemyHit(b, es, 1) ELSE 0

\* update, lines 434-439: the struck enemy loses hp, flashes, and is flagged
\* when its hp is used up
Strike(es, j, damage) ==
  IF j > 0
  THEN [es EXCEPT
          ![j].hp = @ - damage,
          ![j].hitTimer = HIT_FLASH,
          ![j].markedForDeletion =
             IF IsKilled(es[j].hp - damage) THEN TRUE ELSE @]
  ELSE es

\* the least element of a non-empty set of numbers
Lowest(S) == CHOOSE k \in S : \A m \in S : k <= m

\* what one iteration of the bullet loop did to the enemies, read off the
\* list before and after it
Victims(es0, es1) ==
  {[id |-> es0[k].id, loss |-> es0[k].hp - es1[k].hp,
    flash |-> es1[k].hitTimer] :
     k \in {n \in 1..Len(es0) : es1[n] # es0[n]}}

\* the enemies whose box the bullet's box overlaps
Overlapped(b, es) ==
  {es[k].id : k \in {n \in 1..Len(es) : checkCollision(b, es[n])}}

\* the first enemy, in list order, whose box the bullet's box overlaps
FirstOverlapped(b, es) ==
  LET S == {k \in 1..Len(es) : checkCollision(b, es[k])}
  IN  IF S = {} THEN 0 ELSE es[Lowest(S)].id

\* update, lines 416-448: the bullet's effects, and the record of them
BulletEffect(w, i, b, obs, stopped, hitPlayer, j, es1, p1) ==
  [w EXCEPT
     !.player = p1,
     !.enemies = es1,
     !.bullets = IF stopped \/ hitPlayer \/ j > 0 THEN RemoveAt(@, i)
                 ELSE [@ EXCEPT ![i] = b],
     !.hurts = IF hitPlayer THEN @ + 1 ELSE @,
     !.dealt = IF hitPlayer THEN @ + b.damage ELSE @,
     !.drops = IF p1.hp < w.player.hp THEN @ + 1 ELSE @,
     !.touches = IF b.isEnemy /\ checkCollision(b, w.player) /\ ~stopped
                 THEN @ + 1 ELSE @,
     !.killed = IF j > 0 /\ w.enemies[j].hp > 0 /\ es1[j].hp <= 0
                THEN @ \cup {w.enemies[j].id} ELSE @,
     !.bulletLog =
        Append(@, [id |-> b.id, isEnemy |-> b.isEnemy, damage |-> b.damage,
                   out |-> OutOfArena(b), obsHit |-> HitsObstacle(b, obs),
                   touched |-> \/ b.isEnemy /\ checkCollision(b, w.player)
                               \/ ~b.isEnemy /\ FirstOverlapped(b, w.enemies) > 0,
                   touchedPlayer |-> checkCollision(b, w.player),
                   vulnerable |-> Vulnerable(w.player),
                   first |-> FirstOverlapped(b, w.enemies),
                   overlapped |-> Overlapped(b, w.enemies),
                   victims |-> Victims(w.enemies, es1),
                   playerLoss |-> w.player.hp - p1.hp,
                   graceSet |-> p1.invulnerabilityTimer
                                  # w.player.invulnerabilityTimer,
                   gone |-> stopped \/ hitPlayer \/ j > 0,
                   hitPlayer |-> hitPlayer,
                   hitEnemy |-> IF j > 0 THEN w.enemies[j].id ELSE 0,
                   struckDead |-> j > 0 /\ w.enemies[j].markedForDeletion])]

BulletStruck(w, i, b, obs, stopped, hitPlayer, j) ==
  BulletEffect(w, i, b, obs, stopped, hitPlayer, j,
               Strike(w.enemies, j, b.damage),
               IF hitPlayer THEN Hurt(w.player, b.damage) ELSE w.player)

BulletImpact(w, i, b, obs, stopped) ==
  BulletStruck(w, i, b, obs, stopped, HitsPlayer(b, w.player, stopped),
               EnemyStruck(b, w.enemies, stopped))

BulletMoved(w, i, b, obs) == BulletImpact(w, i, b, obs, Stopped(b, obs))

\* update, lines 399-448: one iteration of the bullet loop
BulletStep(w, i, dt, obs) == BulletMoved(w, i, Translated(w.bullets[i], dt), obs)

\* a slip: the loop runs from the first bullet up, so the bullet that moves
\* into the place of a removed one is passed over
RECURSIVE ForwardFrom(_, _, _, _)
ForwardFrom(w, k, dt, obs) ==
  IF k > Len(w.bullets) THEN w
  ELSE ForwardFrom(BulletStep(w, k, dt, obs), k + 1, dt, obs)

BulletLoopForward(w, i, dt, obs) == ForwardFrom(w, 1, dt, obs)

\* the loop runs from the last bullet down to the first
RECURSIVE BulletLoop(_, _, _, _)
BulletLoop(w, i, dt, obs) ==
  IF i < 1 THEN w
  ELSE BulletLoop(BulletStep(w, i, dt, obs), i - 1, dt, obs)

\* update, lines 452-456: dead enemies leave the live set
RECURSIVE Cleanup(_)
Cleanup(es) ==
  IF es = << >> THEN << >>
  ELSE IF Head(es).markedForDeletion THEN Cleanup(Tail(es))
  ELSE << Head(es) >> \o Cleanup(Tail(es))

(***************************************************************************)
(* Upgrades                                                                *)
(***************************************************************************)
\* UPGRADES: the ids of the catalog, in its order
UPGRADES ==
  << "health_boost", "damage_up", "fire_rate", "speed_up", "laser_focus",
     "bullet_speed", "full_heal", "piercing", "crit_master",
     "chain_lightning", "orbiting_blades" >>

\* player.f = v, for a property f the object may not have yet
Put(p, f, v) == [g \in DOMAIN p \cup {f} |-> IF g = f THEN v ELSE p[g]]

\* player.f += n: an absent property reads undefined, and undefined + n is
\* NaN, as is NaN + n
AddTo(p, f, n) ==
  IF f \in DOMAIN p /\ p[f] # NaN THEN [p EXCEPT ![f] = @ + n]
  ELSE Put(p, f, NaN)

\* the apply function of the upgrade with the given id; rates are per mille
apply(id, p) ==
  CASE id = "health_boost" -> [p EXCEPT !.maxHp = @ + 20, !.hp = @ + 20]
    [] id = "damage_up" -> [p EXCEPT !.damage = @ + 2]
    [] id = "fire_rate" -> [p EXCEPT !.fireRate = (@ * 11) \div 10]
    [] id = "speed_up" -> [p EXCEPT !.speed = (@ * 11) \div 10]
    [] id = "laser_focus" -> [p EXCEPT !.bulletSpread = (@ * 8) \div 10]
    [] id = "bullet_speed" -> [p EXCEPT !.bulletSpeed = (@ * 12) \div 10]
    [] id = "full_heal" -> [p EXCEPT !.hp = p.maxHp]
    [] id = "piercing" -> AddTo(p, "piercing", 1)
    [] id = "crit_master" -> AddTo(p, "critChance", 150)
    [] id = "chain_lightning" -> Put(p, "hasChainLightning", TRUE)
    [] id = "orbiting_blades" -> Put(p, "hasOrbitingBlades", TRUE)

\* the comparator () => 0.5 - Math.random(): positive, so that the pair is
\* out of order, when the draw is below one half
OutOfOrder(tape, k) == Rand(tape, k) < 500

\* Array.prototype.sort as an insertion sort: element x sinks from the end
\* of the sorted prefix while the comparator calls the pair out of order;
\* every comparison takes the next draw
RECURSIVE Sink(_, _, _, _, _)
Sink(prefix, x, j, tape, k) ==
  IF j >= 1 /\ OutOfOrder(tape, k)
  THEN Sink(prefix, x, j - 1, tape, k + 1)
  ELSE [list |-> SubSeq(prefix, 1, j) \o << x >>
                   \o SubSeq(prefix, j + 1, Len(prefix)),
        k |-> IF j >= 1 THEN k + 1 ELSE k]

RECURSIVE SortFrom(_, _, _, _)
SortFrom(list, i, tape, k) ==
  IF i > Len(list) THEN list
  ELSE SortFrom(Sink(SubSeq(list, 1, i - 1), list[i], i - 1, tape, k).list
                  \o SubSeq(list, i + 1, Len(list)),
                i + 1, tape,
                Sink(SubSeq(list, 1, i - 1), list[i], i - 1, tape, k).k)

\* list.slice(0, count); a negative count is taken from the end
Slice(list, count) ==
  SubSeq(list, 1, IF count < 0 THEN Max(Len(list) + count, 0)
                  ELSE Min(count, Len(list)))

\* a slip: the sort is made on the catalog itself, not on a copy
getRandomUpgradesInPlace(count, tape) ==
  [offered |-> Slice(SortFrom(UPGRADES, 2, tape, 0), count),
   catalog |-> SortFrom(UPGRADES, 2, tape, 0)]

\* getRandomUpgrades: the upgrades returned, and the catalog as the call
\* leaves it; the sort is made on the copy [...UPGRADES]
getRandomUpgrades(count, tape) ==
  [offered |-> Slice(SortFrom(UPGRADES, 2, tape, 0), count),
   catalog |-> UPGRADES]

(***************************************************************************)
(* Inputs: key states, pointer, frame times, random tapes                  *)
(***************************************************************************)
Keys(up, down, left, right, space, fire) ==
  [up |-> up, down |-> down, left |-> left, right |-> right,
   space |-> space, fire |-> fire]

Idle      == Keys(FALSE, FALSE, FALSE, FALSE, FALSE, FALSE)
FireHeld  == Keys(FALSE, FALSE, FALSE, FALSE, FALSE, TRUE)
GoLeft    == Keys(FALSE, FALSE, TRUE, FALSE, FALSE, FALSE)
GoUp      == Keys(TRUE, FALSE, FALSE, FALSE, FALSE, FALSE)
GoUpRight == Keys(TRUE, FALSE, FALSE, TRUE, FALSE, FALSE)
DashRight == Keys(FALSE, FALSE, FALSE, TRUE, TRUE, FALSE)
DashUpLeft == Keys(TRUE, FALSE, TRUE, FALSE, TRUE, TRUE)
DashNowhere == Keys(FALSE, FALSE, TRUE, TRUE, TRUE, FALSE)
DashLeft  == Keys(FALSE, FALSE, TRUE, FALSE, TRUE, FALSE)

\* the pointer of the tests' update(dt, input, 100, 100)
Pointer == [x |-> 100, y |-> 100]

Tape(seed, stride) == [seed |-> seed, stride |-> stride]
TapeSet == {Tape(0, 0), Tape(130, 270)}

(***************************************************************************)
(* The engine and its observers                                            *)
(***************************************************************************)
VARIABLES
  state,        \* GameLogic.state
  player,       \* GameLogic.player
  obstacles,    \* GameLogic.obstacles
  bullets,      \* GameLogic.bullets
  enemies,      \* GameLogic.enemies
  currentWave,  \* GameLogic.currentWave
  waveTimer,    \* GameLogic.waveTimer
  nextId,       \* the identity the next created object gets
  calls,        \* reset() and update() calls made so far
  fresh,        \* no update has run since the last reset()
  last,         \* what the last step did
  graceClock,   \* dt since the update that last lowered the player's hp
  dashClock,    \* dt since the update in which the last dash began
  emptyClock,   \* dt over the latest consecutive enemy-free updates
  fireClock,    \* dt since the last player shot, or since reset()
  frame         \* parity of the frames the host's animation loop has run

vars == << state, player, obstacles, bullets, enemies, currentWave, waveTimer,
           nextId, calls, fresh, last, graceClock, dashClock, emptyClock,
           fireClock, frame >>

world == << player, obstacles, bullets, enemies, currentWave, waveTimer >>

GameStates ==
  {"MENU", "RUN", "UPGRADE", "PAUSE", "GAMEOVER", "META_MENU", "SETTINGS"}

Advance(clock, dt) == IF clock = Off THEN Off ELSE Min(ClockCap, clock + dt)

NoEvent ==
  [kind |-> "init", ran |-> FALSE, dt |-> 0, inp |-> Idle,
   dispX |-> 0, dispY |-> 0, dashing |-> FALSE, dashStarted |-> FALSE,
   hpBefore |-> 0, hpDrop |-> FALSE, hurts |-> 0, dealt |-> 0, drops |-> 0,
   touches |-> 0, hitGap |-> Off, dashAge |-> Off,
   fired |-> FALSE, fireGap |-> 0, enemyShots |-> 0,
   killed |-> {}, bulletLog |-> << >>, contactLog |-> << >>,
   waved |-> FALSE, emptyFor |-> 0,
   spawned |-> << >>, spawnAt |-> NewPlayer,
   a |-> << >>, b |-> << >>, hit |-> FALSE, hitSwapped |-> FALSE,
   shots |-> << >>, dashGap |-> Off,
   shotLog |-> << >>, sinceShot |-> {},
   upgrade |-> "", before |-> NewPlayer,
   count |-> 0, offered |-> << >>, catalog |-> << >>]

\* the step called spawnWave: the enemies as it pushed them, and the player
\* as it stood then
SpawnEvent(kind, tape, id) ==
  [NoEvent EXCEPT !.kind = kind, !.ran = kind # "init",
                  !.spawned = spawnWave(1, tape, 0, id)]

\* new GameLogic(): the field initialisers, then reset()
InitWith(tape) ==
  /\ state = "MENU"
  /\ player = NewPlayer
  /\ obstacles = << >>
  /\ bullets = << >>
  /\ enemies = spawnWave(1, tape, 0, 1)
  /\ currentWave = 1
  /\ waveTimer = 0
  /\ nextId = 1 + WaveSize(1)
  /\ calls = 0
  /\ fresh = TRUE
  /\ last = SpawnEvent("init", tape, 1)
  /\ graceClock = Off
  /\ dashClock = Off
  /\ emptyClock = 0
  /\ fireClock = 0
  /\ frame = 0

\* a slip: the bullets of the previous run survive reset()
ResetWorldKeepBullets(tape) ==
  /\ player' = NewPlayer
  /\ bullets' = bullets
  /\ enemies' = spawnWave(1, tape, 0, nextId)
  /\ obstacles' = << >>
  /\ currentWave' = 1
  /\ waveTimer' = 0
  /\ nextId' = nextId + WaveSize(1)

\* a slip: the obstacles of the previous run survive reset()
ResetWorldKeepObstacles(tape) ==
  /\ player' = NewPlayer
  /\ bullets' = << >>
  /\ enemies' = spawnWave(1, tape, 0, nextId)
  /\ obstacles' = obstacles
  /\ currentWave' = 1
  /\ waveTimer' = 0
  /\ nextId' = nextId + WaveSize(1)

\* GameLogic.reset: what it assigns
ResetWorld(tape) ==
  /\ player' = NewPlayer
  /\ bullets' = << >>
  /\ enemies' = spawnWave(1, tape, 0, nextId)
  /\ obstacles' = << >>
  /\ currentWave' = 1
  /\ waveTimer' = 0
  /\ nextId' = nextId + WaveSize(1)

\* the observers start over with the new player
ResetObservers ==
  /\ fresh' = TRUE
  /\ graceClock' = Off
  /\ dashClock' = Off
  /\ emptyClock' = 0
  /\ fireClock' = 0

\* GameLogic.reset, called by the host (handleStartGame) or by a test
Reset(tape) ==
  /\ calls < MaxCalls
  /\ ResetWorld(tape)
  /\ ResetObservers
  /\ calls' = calls + 1
  /\ last' = SpawnEvent("reset", tape, nextId)
  /\ UNCHANGED << state, frame >>

\* the Game component's effect on a run-state change: it writes the state
\* and, when a run starts with a dead player, resets.  On an engine whose
\* player is alive this is also the tests' game.state = 'RUN'.
HostSetState(s, tape) ==
  /\ s # state
  /\ state' = s
  /\ UNCHANGED frame
  /\ IF s = "RUN" /\ player.hp = 0
     THEN /\ calls < MaxCalls
          /\ ResetWorld(tape)
          /\ ResetObservers
          /\ calls' = calls + 1
          /\ last' = SpawnEvent("restart", tape, nextId)
     ELSE /\ last' = [NoEvent EXCEPT !.kind = "state",
                                     !.sinceShot = last.sinceShot]
          /\ UNCHANGED << player, obstacles, bullets, enemies, currentWave,
                          waveTimer, nextId, calls, fresh, graceClock,
                          dashClock, emptyClock, fireClock >>

\* a test body arranges the arena before its first update: it replaces the
\* spawned enemies and pushes bullets and obstacles of its own
Arrange(scn) ==
  /\ fresh
  /\ last.kind # "arrange"
  /\ enemies' = scn.enemies
  /\ bullets' = scn.bullets
  /\ obstacles' = scn.obstacles
  /\ last' = [NoEvent EXCEPT !.kind = "arrange"]
  /\ UNCHANGED << state, player, currentWave, waveTimer, nextId, calls, fresh,
                  graceClock, dashClock, emptyClock, fireClock, frame >>

\* the arena empties between two updates: the tests' game.enemies = []
ClearEnemies ==
  /\ enemies # << >>
  /\ currentWave < MaxWave
  /\ enemies' = << >>
  /\ last' = [NoEvent EXCEPT !.kind = "clear"]
  /\ UNCHANGED << state, player, obstacles, bullets, currentWave, waveTimer,
                  nextId, calls, fresh, graceClock, dashClock, emptyClock,
                  fireClock, frame >>

\* the host applies an upgrade of the catalog to the player
ApplyUpgrade(id) ==
  /\ calls < MaxCalls
  /\ calls' = calls + 1
  /\ player' = apply(id, player)
  /\ last' = [NoEvent EXCEPT !.kind = "upgrade", !.upgrade = id,
                             !.before = player]
  /\ UNCHANGED << state, obstacles, bullets, enemies, currentWave, waveTimer,
                  nextId, fresh, graceClock, dashClock, emptyClock,
                  fireClock, frame >>

\* the upgrade menu asks for count upgrades
GetRandomUpgrades(count, tape) ==
  /\ last.kind # "offer"
  /\ \E r \in {getRandomUpgrades(count, tape)} :
       last' = [NoEvent EXCEPT !.kind = "offer", !.count = count,
                               !.offered = r.offered, !.catalog = r.catalog]
  /\ UNCHANGED << state, player, obstacles, bullets, enemies, currentWave,
                  waveTimer, nextId, calls, fresh, graceClock, dashClock,
                  emptyClock, fireClock, frame >>

\* a caller asks checkCollision(a, b) and checkCollision(b, a); the method
\* assigns nothing, so the arguments are afterwards what they were
CallCheckCollision(a, b) ==
  /\ last.kind # "collide"
  /\ last' = [NoEvent EXCEPT !.kind = "collide", !.a = a, !.b = b,
                             !.hit = checkCollision(a, b),
                             !.hitSwapped = checkCollision(b, a)]
  /\ UNCHANGED << state, player, obstacles, bullets, enemies, currentWave,
                  waveTimer, nextId, calls, fresh, graceClock, dashClock,
                  emptyClock, fireClock, frame >>

\* a slip: the wave advances as soon as the arena is empty
WaveDueAtOnce(empty, timer) == empty

\* a slip: the delay must be exceeded, not reached
WaveDueLate(empty, timer) == empty /\ timer > WAVE_DELAY

\* update, lines 288-290: the arena has been empty for the inter-wave delay
WaveDue(empty, timer) == empty /\ timer >= WAVE_DELAY

\* a slip: the gate lets the paused engine run
GateOpenAlso(s) == s = "RUN" \/ s = "PAUSE"

\* update, line 205: the engine runs in active play only.  (The player of a
\* constructed engine is never null, so the guard of line 206 never fires.)
GateOpen(s) == s = "RUN"

\* a slip: = for +=, the timer holds the last dt only
WaveStageNoAccumulate(es, dt) ==
  LET empty == Len(es) = 0
      wt == IF empty THEN dt ELSE waveTimer
      spawns == WaveDue(empty, wt)
  IN  [empty |-> empty, wt |-> wt, spawns |-> spawns,
       wave |-> IF spawns THEN currentWave + 1 ELSE currentWave]

\* update, lines 288-295: the wave logic, read off the fields as the update
\* finds them
WaveStageOf(es, dt) ==
  LET empty == Len(es) = 0
      wt == IF empty THEN waveTimer + dt ELSE waveTimer
      spawns == WaveDue(empty, wt)
  IN  [empty |-> empty, wt |-> wt, spawns |-> spawns,
       wave |-> IF spawns THEN currentWave + 1 ELSE currentWave]

WaveStage(dt) == WaveStageOf(enemies, dt)

\* the world the enemy loop starts from
WorldAfterWaveOf(es, bs, ps, wv, tape) ==
  [player |-> ps.p,
   enemies |-> IF wv.spawns THEN spawnWave(wv.wave, tape, 0, nextId)
               ELSE es,
   bullets |-> bs,
   nextId |-> IF wv.spawns THEN nextId + WaveSize(wv.wave) ELSE nextId,
   hurts |-> 0, dealt |-> 0, drops |-> 0, touches |-> 0,
   enemyShots |-> 0, killed |-> {}, bulletLog |-> << >>,
   contactLog |-> << >>,
   spawned |-> IF wv.spawns THEN spawnWave(wv.wave, tape, 0, nextId)
               ELSE << >>,
   shots |-> << >>, shotLog |-> << >>, sinceShot |-> last.sinceShot]

WorldAfterWave(ps, wv, tape) ==
  WorldAfterWaveOf(enemies, bullets, ps, wv, tape)

\* update, line 388: lastFired accumulates dt.  The sum is kept up to
\* ClockCap, which is past every 1 / fireRate the player can have: line 391
\* reads the same answer from it, and a wait of any length has finitely
\* many states.
Armed(p, dt) == [p EXCEPT !.lastFired = Min(ClockCap, @ + dt)]

\* update, lines 389-391: the trigger is down and the interval has passed
Fires(p, dt, inp) == inp.fire /\ FireReady(Armed(p, dt))

\* update, lines 388-395: shooting
Shoot(w1, dt, inp, rand) ==
  IF Fires(w1.player, dt, inp)
  THEN [w1 EXCEPT
          !.player = [Armed(w1.player, dt) EXCEPT !.lastFired = 0],
          !.bullets = Append(@, fireBullet(Armed(w1.player, dt), rand,
                                           w1.nextId)),
          !.shots = << fireBullet(Armed(w1.player, dt), rand, w1.nextId) >>,
          !.nextId = @ + 1]
  ELSE [w1 EXCEPT !.player = Armed(w1.player, dt)]

\* the shot clocks after an update: 0 for a shooter that has just fired,
\* dt more for one that fired earlier
ShotClocks(clocks, log, es, dt) ==
  LET firing == {log[k].id : k \in 1..Len(log)}
  IN  {[id |-> es[k].id,
        ms |-> IF es[k].id \in firing THEN 0
               ELSE SinceShot(clocks, es[k].id, dt)] :
         k \in {n \in 1..Len(es) :
                 \/ es[n].id \in firing
                 \/ SinceShot(clocks, es[n].id, dt) # Off}}

\* the fields an update leaves, and what the observers see of it
UpdateOutcome(ps, wv, fires, w3, dt, inp) ==
  LET hpDrop == w3.player.hp < player.hp
      grace1 == Advance(graceClock, dt)
      dash1 == IF ps.dashStarted THEN 0 ELSE Advance(dashClock, dt)
      empty1 == IF wv.empty THEN Min(ClockCap, emptyClock + dt) ELSE 0
      fire1 == Min(ClockCap, fireClock + dt)
  IN  [player |-> w3.player,
       enemies |-> Cleanup(w3.enemies),
       bullets |-> w3.bullets,
       nextId |-> w3.nextId,
       currentWave |-> wv.wave,
       waveTimer |-> IF wv.spawns THEN 0 ELSE wv.wt,
       graceClock |-> IF hpDrop THEN 0 ELSE grace1,
       dashClock |-> dash1,
       emptyClock |-> empty1,
       fireClock |-> IF fires THEN 0 ELSE fire1,
       last |-> [kind |-> "update", ran |-> TRUE, dt |-> dt,
                 inp |-> inp,
                 dispX |-> ps.dispX, dispY |-> ps.dispY,
                 dashing |-> ps.dashing, dashStarted |-> ps.dashStarted,
                 hpBefore |-> player.hp, hpDrop |-> hpDrop,
                 hurts |-> w3.hurts, dealt |-> w3.dealt, drops |-> w3.drops,
                 touches |-> w3.touches,
                 hitGap |-> IF hpDrop THEN grace1 ELSE Off,
                 dashAge |-> dash1,
                 fired |-> fires, fireGap |-> fire1,
                 enemyShots |-> w3.enemyShots,
                 killed |-> w3.killed, bulletLog |-> w3.bulletLog,
                 contactLog |-> w3.contactLog,
                 waved |-> wv.spawns, emptyFor |-> empty1,
                 spawned |-> w3.spawned, spawnAt |-> ps.p,
                 shots |-> w3.shots,
                 shotLog |-> w3.shotLog,
                 sinceShot |-> ShotClocks(w3.sinceShot, w3.shotLog,
                                         Cleanup(w3.enemies), dt),
                 dashGap |-> IF ps.dashStarted THEN Advance(dashClock, dt)
                             ELSE Off,
                 a |-> << >>, b |-> << >>, hit |-> FALSE,
                 hitSwapped |-> FALSE, upgrade |-> "", before |-> NewPlayer,
                 count |-> 0, offered |-> << >>, catalog |-> << >>]]

\* update, lines 398-456: the bullet loop, last bullet first
UpdateBullets(ps, wv, fires, w2, dt, inp) ==
  UpdateOutcome(ps, wv, fires,
                BulletLoop(w2, Len(w2.bullets), dt, obstacles), dt, inp)

\* update, lines 388-395: the shot; its spread takes the draw that follows
\* those of the wave director
UpdateShooting(ps, wv, w1, dt, inp, tape) ==
  UpdateBullets(ps, wv, Fires(w1.player, dt, inp),
                Shoot(w1, dt, inp,
                      Rand(tape, IF wv.spawns THEN SpawnDraws(wv.wave) ELSE 0)),
                dt, inp)

\* update, lines 288-385: the wave logic and the enemy loop
UpdateEnemiesOf(es, bs, ps, wv, dt, inp, tape) ==
  UpdateShooting(ps, wv,
                 EnemyLoop(WorldAfterWaveOf(es, bs, ps, wv, tape), 1, dt,
                           obstacles),
                 dt, inp, tape)

UpdateEnemies(ps, wv, dt, inp, tape) ==
  UpdateEnemiesOf(enemies, bullets, ps, wv, dt, inp, tape)

\* GameLogic.update, lines 208-456: the body of an update that passes the
\* gate, as the values it leaves in the fields and what the observers see
\* on the enemy list es and the bullet list bs
UpdateResultOf(es, bs, dt, inp, mouseX, mouseY, tape) ==
  UpdateEnemiesOf(es, bs,
                  PlayerStep(player, dt, inp, mouseX, mouseY, obstacles),
                  WaveStageOf(es, dt), dt, inp, tape)

UpdateResult(dt, inp, mouseX, mouseY, tape) ==
  UpdateResultOf(enemies, bullets, dt, inp, mouseX, mouseY, tape)

\* GameLogic.update: what it assigns
UpdateFields(dt, inp, mouseX, mouseY, tape) ==
  /\ UNCHANGED << state, obstacles >>
  /\ IF ~GateOpen(state)
     THEN /\ last' = [NoEvent EXCEPT !.kind = "update",
                                     !.sinceShot = last.sinceShot]
          /\ UNCHANGED << player, bullets, enemies, currentWave, waveTimer,
                          nextId, fresh, graceClock, dashClock, emptyClock,
                          fireClock >>
     ELSE \E r \in {UpdateResult(dt, inp, mouseX, mouseY, tape)} :
          /\ player' = r.player
          /\ enemies' = r.enemies
          /\ bullets' = r.bullets
          /\ nextId' = r.nextId
          /\ currentWave' = r.currentWave
          /\ waveTimer' = r.waveTimer
          /\ fresh' = FALSE
          /\ graceClock' = r.graceClock
          /\ dashClock' = r.dashClock
          /\ emptyClock' = r.emptyClock
          /\ fireClock' = r.fireClock
          /\ last' = r.last

\* GameLogic.update, called by a test or by the host
Update(dt, inp, mouseX, mouseY, tape) ==
  /\ calls < MaxCalls
  /\ calls' = calls + 1
  /\ UNCHANGED frame
  /\ UpdateFields(dt, inp, mouseX, mouseY, tape)

\* the host's animation loop: update is called frame after frame, without
\* end.  The bound on the calls is applied to the frames that find enemies
\* in the arena; the frames of an empty arena are not counted, so the wait
\* for a wave is never cut short by the bound.
Frame(dt, tape) ==
  /\ enemies = << >> \/ calls < MaxCalls
  /\ calls' = IF enemies = << >> THEN calls ELSE calls + 1
  /\ frame' = 1 - frame
  /\ UpdateFields(dt, Idle, Pointer.x, Pointer.y, tape)

\* a frame arrives: what the animation loop's scheduling promises.  Only
\* Frame changes the parity, so the steps that do are the frames.
FrameArrives ==
  /\ enemies = << >> \/ calls < MaxCalls
  /\ frame' = 1 - frame

(***************************************************************************)
(* Arrangements made by the tests                                          *)
(***************************************************************************)
\* the enemy literal of the tests: a stationary CHASER without the optional
\* fields
TestEnemy(id, x, y, hp, damage) ==
  [NewEnemy(id, "CHASER", x, y) EXCEPT
     !.hp = hp, !.maxHp = 100, !.speed = 0, !.damage = damage]

\* the bullet literal of the tests
TestBullet(id, x, y, size, vx, isEnemy) ==
  NewBullet(id, x, y, size, vx, 0, 10, isEnemy)

\* the obstacle literal of the tests
TestObstacle(id, x, y) == [id |-> id, x |-> x, y |-> y, width |-> 50,
                           height |-> 50]

Scene(es, bs, os) == [enemies |-> es, bullets |-> bs, obstacles |-> os]

\* 'should reduce player HP when enemy touches player'
SceneContact ==
  Scene(<< TestEnemy(101, NewPlayer.x, NewPlayer.y, 100, 10) >>, << >>, << >>)

\* the same with an enemy that hits harder than the tests' 10
SceneBruiser ==
  Scene(<< TestEnemy(101, NewPlayer.x, NewPlayer.y, 100, 60) >>, << >>, << >>)

\* 'should kill enemy when hp reaches 0'
SceneKill ==
  Scene(<< TestEnemy(101, 300, 300, 10, 10) >>,
        << TestBullet(201, 250, 300, 8, 100, FALSE) >>, << >>)

\* 'should destroy bullets when hitting walls'
SceneWall ==
  Scene(<< >>,
        << TestBullet(201, ARENA_X + ARENA_WIDTH - 5, ARENA_Y + 100, 8, 100,
                      FALSE) >>, << >>)

\* 'should destroy bullets when hitting obstacles', with an enemy standing
\* in the obstacle's corner
SceneObstacle ==
  Scene(<< TestEnemy(101, 190, 200, 10, 10) >>,
        << TestBullet(201, 150, 200, 8, 100, FALSE) >>,
        << TestObstacle(301, 200, 200) >>)

\* an enemy bullet flying at the player
SceneHostile ==
  Scene(<< >>, << TestBullet(201, 560, NewPlayer.y, 12, 200, TRUE) >>, << >>)

\* an enemy bullet flying at the player, who stands behind an obstacle
SceneCover ==
  Scene(<< >>, << TestBullet(201, 560, NewPlayer.y, 12, 200, TRUE) >>,
        << TestObstacle(301, 598, NewPlayer.y) >>)

\* a stationary enemy wide enough to cover the whole path of a dash
SceneHazard ==
  Scene(<< [TestEnemy(101, NewPlayer.x, NewPlayer.y, 100, 10) EXCEPT
              !.width = 800] >>, << >>, << >>)

\* an enemy bullet at rest where the first 0.1 s of a dash to the right ends
SceneMine ==
  Scene(<< >>, << TestBullet(201, NewPlayer.x + 90, NewPlayer.y, 12, 0, TRUE) >>,
        << >>)

\* an obstacle in the way of a dash to the right, inside a wide enemy
SceneBlock ==
  Scene(<< [TestEnemy(101, NewPlayer.x, NewPlayer.y, 100, 10) EXCEPT
              !.width = 800] >>, << >>,
        << TestObstacle(301, NewPlayer.x + 60, NewPlayer.y) >>)

\* two stationary enemies that overlap each other, and a player bullet
\* flying at them
SceneCrowd ==
  Scene(<< TestEnemy(101, 300, 300, 30, 10), TestEnemy(102, 310, 300, 30, 10) >>,
        << TestBullet(201, 250, 300, 8, 100, FALSE) >>, << >>)

\* two enemies on the player, the harder hitter second, and an enemy bullet
\* at rest on all three
SceneSwarm ==
  Scene(<< TestEnemy(101, NewPlayer.x, NewPlayer.y, 100, 10),
           TestEnemy(102, NewPlayer.x + 10, NewPlayer.y, 100, 60) >>,
        << TestBullet(201, NewPlayer.x, NewPlayer.y, 12, 0, TRUE) >>, << >>)

\* an enemy on the player whose one hit takes all the player's hp
SceneLethal ==
  Scene(<< TestEnemy(101, NewPlayer.x, NewPlayer.y, 100, PLAYER_MAX_HP) >>,
        << >>, << >>)

\* a player bullet at rest on the player, no enemy near
SceneFriendly ==
  Scene(<< >>, << TestBullet(201, NewPlayer.x, NewPlayer.y, 12, 0, FALSE) >>,
        << >>)

\* two obstacles about the player: one up and to the left, clear of a step
\* up and to the right, and one to the right, in the way of that step
SceneCorner ==
  Scene(<< >>, << >>,
        << TestObstacle(301, NewPlayer.x - 25, NewPlayer.y - 45),
           TestObstacle(302, NewPlayer.x + 45, NewPlayer.y) >>)

\* two player bullets at rest on an enemy that one of them kills
SceneVolley ==
  Scene(<< TestEnemy(101, 300, 300, 10, 10) >>,
        << TestBullet(201, 300, 300, 8, 0, FALSE),
           TestBullet(202, 300, 300, 8, 0, FALSE) >>, << >>)

\* an obstacle that stops every dash to the right where it starts, and a
\* slow enemy bullet that is on the player
SceneAmbush ==
  Scene(<< >>,
        << TestBullet(201, NewPlayer.x - 10, NewPlayer.y, 12, 50, TRUE) >>,
        << [TestObstacle(301, NewPlayer.x + 470, NewPlayer.y) EXCEPT
              !.width = 900] >>)

\* two enemy bullets at rest on the player
SceneCrossfire ==
  Scene(<< >>,
        << TestBullet(201, NewPlayer.x, NewPlayer.y, 12, 0, TRUE),
           TestBullet(202, NewPlayer.x, NewPlayer.y, 12, 0, TRUE) >>, << >>)

\* 'Clear auto-spawned enemies for isolation'
SceneEmpty == Scene(<< >>, << >>, << >>)

\* two stationary enemies that overlap each other, the first against the
\* left wall
SceneHuddle ==
  Scene(<< TestEnemy(101, ARENA_X + 16, 300, 100, 10),
           TestEnemy(102, ARENA_X + 26, 300, 100, 10) >>, << >>, << >>)

\* enemies as spawnWave makes them: shooters beyond, within and inside the
\* stand-off band, a shooter and a chaser on the player's centre, and a tank
SceneGallery ==
  Scene(<< NewEnemy(101, "SHOOTER", NewPlayer.x - 540, NewPlayer.y),
           NewEnemy(102, "SHOOTER", NewPlayer.x - 400, NewPlayer.y),
           NewEnemy(103, "SHOOTER", NewPlayer.x, NewPlayer.y - 160),
           NewEnemy(104, "SHOOTER", NewPlayer.x, NewPlayer.y),
           NewEnemy(105, "CHASER", NewPlayer.x, NewPlayer.y),
           NewEnemy(106, "TANK", NewPlayer.x + 300, NewPlayer.y + 225) >>,
        << >>, << >>)

(***************************************************************************)
(* Combat: contact, bullets, walls, obstacles, kills                       *)
(***************************************************************************)
CombatDt == {100, 300, 600}
CombatKeys == {Idle, FireHeld}
CombatScenes == {SceneContact, SceneBruiser, SceneKill, SceneWall,
                 SceneObstacle, SceneHostile, SceneCover}
CombatStates == {"MENU", "RUN"}

\* the trigger is held through the long updates only
CombatMoves ==
  {move \in [dt : CombatDt, inp : CombatKeys] :
     move.inp = FireHeld => move.dt = 600}

Init == \E tape \in TapeSet : InitWith(tape)

Next ==
  \/ \E tape \in TapeSet : Reset(tape)
  \/ \E s \in CombatStates, tape \in TapeSet : HostSetState(s, tape)
  \/ \E scn \in CombatScenes : Arrange(scn)
  \/ \E move \in CombatMoves, tape \in TapeSet :
       Update(move.dt, move.inp, Pointer.x, Pointer.y, tape)

Spec == Init /\ [][Next]_vars

(***************************************************************************)
(* Properties of combat                                                    *)
(***************************************************************************)
Ran == last.kind = "update" /\ last.ran

\* C1: after every update in RUN state the player's hp is within
\* [0, maxHp], and damage that would take hp below 0 leaves it at exactly 0.
HpWithinBounds ==
  /\ 0 <= player.hp /\ player.hp <= player.maxHp
  /\ (Ran /\ last.hurts > 0 /\ last.hpBefore - last.dealt < 0) => player.hp = 0

\* C1 witness: a hit for more than the hp that was left
HpFlooredAtZero ==
  /\ Ran /\ last.hurts > 0
  /\ last.hpBefore > 0 /\ last.hpBefore < last.dealt
  /\ player.hp = 0

\* C2: an update lowers the player's hp at most once, and only when the dt
\* of the updates since the one that last lowered it adds up to the 1.0 s
\* grace; a stationary enemy on the player for two updates of 0.1 s takes 10
\* hp, not 20.
GraceAfterHit ==
  Ran =>
    /\ last.drops <= 1
    /\ (last.hpDrop /\ last.hitGap # Off) => last.hitGap >= GRACE_DURATION
    /\ (last.dt = 100 /\ graceClock = 100 /\ last.hpBefore = PLAYER_MAX_HP - 10)
         => player.hp = PLAYER_MAX_HP - 10

\* C2 witness: the enemy still overlaps the player and hits again once the
\* grace has run out
SecondHitAfterGrace ==
  Ran /\ last.hpDrop /\ last.hitGap # Off /\ last.hitGap >= GRACE_DURATION

\* C2 witness of the scenario: second update of 0.1 s under the enemy
NoSecondHitInGrace ==
  /\ Ran /\ last.dt = 100 /\ graceClock = 100 /\ last.touches > 0
  /\ player.hp = PLAYER_MAX_HP - 10

\* C5: an enemy whose hp went from positive to <= 0 in the update is not in
\* the live set when the update returns; every live enemy has hp > 0.
NoDeadEnemyLives ==
  \A i \in 1..Len(enemies) :
    enemies[i].hp > 0 /\ enemies[i].id \notin last.killed

\* C5 witness: the enemy with hp 10 is struck for 10 and removed
EnemyKilledAndGone ==
  Ran /\ last.killed = {101} /\ enemies = << >>

\* C6: a bullet that after its translation is outside the arena or overlaps
\* an obstacle is not in the live set when the update returns and has
\* damaged neither the player nor an enemy.
StoppedBulletIsGone ==
  \A k \in 1..Len(last.bulletLog) :
    LET e == last.bulletLog[k]
    IN  (e.out \/ e.obsHit) =>
          /\ \A i \in 1..Len(bullets) : bullets[i].id # e.id
          /\ ~e.hitPlayer
          /\ e.hitEnemy = 0

\* C6 witness: a bullet stopped by an obstacle while it overlaps a target
BulletStoppedOnTarget ==
  \E k \in 1..Len(last.bulletLog) :
    last.bulletLog[k].obsHit /\ last.bulletLog[k].touched

\* C6 witness: a bullet leaves the arena
BulletLeftArena ==
  \E k \in 1..Len(last.bulletLog) : last.bulletLog[k].out

ResetPostcondition ==
  [][last'.kind \in {"reset", "restart"} =>
       /\ player'.x = ARENA_X + ARENA_WIDTH \div 2
       /\ player'.y = ARENA_Y + ARENA_HEIGHT \div 2
       /\ player'.hp = PLAYER_MAX_HP /\ player'.maxHp = PLAYER_MAX_HP
       /\ player'.dashTimer = 0 /\ player'.dashCooldown = 0
       /\ player'.invulnerabilityTimer = 0 /\ player'.lastFired = 0
       /\ player'.isInvulnerable = FALSE
       /\ bullets' = << >> /\ obstacles' = << >>
       /\ currentWave' = 1 /\ waveTimer' = 0
       /\ Len(enemies') = 3
       /\ \A i \in 1..Len(enemies') :
            /\ enemies'[i].type = "CHASER"
            /\ enemies'[i].hp = ENEMY_CHASER_HP
            /\ enemies'[i].id >= nextId
            /\ \A j \in 1..Len(enemies) : enemies[j].id # enemies'[i].id
       /\ last'.kind = "reset" => state' = state]_vars

\* C10 witness: a reset of an engine that has run, in RUN state
ResetAfterPlay ==
  last.kind = "reset" /\ calls >= 3 /\ state = "RUN"

(***************************************************************************)
(* Dashing                                                                 *)
(***************************************************************************)
DashDt == {100, 150}
DashKeys == {GoLeft, DashRight, DashLeft, DashNowhere}
DashScenes == {SceneHazard, SceneMine, SceneBlock}

NextDash ==
  \/ \E tape \in TapeSet : Reset(tape)
  \/ \E s \in CombatStates, tape \in TapeSet : HostSetState(s, tape)
  \/ \E scn \in DashScenes : Arrange(scn)
  \/ \E dt \in DashDt, inp \in DashKeys, tape \in TapeSet :
       Update(dt, inp, Pointer.x, Pointer.y, tape)

SpecDash == Init /\ [][NextDash]_vars

\* C3: an update in which less than PLAYER_DASH_DURATION of dt has elapsed
\* since the dash began does not lower the player's hp, whatever enemy or
\* enemy bullet touches the player; once the duration has elapsed a contact
\* outside the post-hit grace lowers it again.
DashShield ==
  Ran =>
    /\ (last.dashAge # Off /\ last.dashAge < PLAYER_DASH_DURATION)
         => (~last.hpDrop /\ player.hp = last.hpBefore)
    /\ (/\ last.dashAge # Off /\ last.dashAge >= PLAYER_DASH_DURATION
        /\ last.hurts + last.drops = 0 /\ last.touches > 0
        /\ last.hpBefore > 0)
         => graceClock # Off /\ graceClock < GRACE_DURATION

\* C3 witness: the dashing player is inside an enemy, outside any grace, and
\* keeps its hp
DashThroughHazard ==
  /\ Ran /\ last.touches > 0
  /\ last.dashAge # Off /\ last.dashAge > 0
  /\ last.dashAge < PLAYER_DASH_DURATION
  /\ graceClock = Off
  /\ player.hp = PLAYER_MAX_HP

\* the dash of 0.25 s is over and the enemy hits
HitAfterDash ==
  Ran /\ last.hpDrop /\ last.dashAge # Off /\ last.dashAge >= PLAYER_DASH_DURATION

\* C4: an update that starts with dashTimer > 0 displaces the player,
\* before clamping and obstacle resolution, by exactly (dashVx*dt, dashVy*dt)
\* whatever keys are down, keeps dashVx and dashVy, and starts no dash.
DashUninterruptible ==
  [][(last'.kind = "update" /\ last'.ran /\ player.dashTimer > 0) =>
       /\ last'.dispX = Div(player.dashVx * last'.dt, 1000)
       /\ last'.dispY = Div(player.dashVy * last'.dt, 1000)
       /\ player'.dashVx = player.dashVx
       /\ player'.dashVy = player.dashVy
       /\ ~last'.dashStarted
       /\ player'.dashCooldown = player.dashCooldown - last'.dt]_vars

\* C4 witness: mid-dash to the right with the dash key and the opposite
\* direction held; the player still moves right
DashAgainstKeys ==
  /\ Ran /\ last.dashing /\ last.inp = DashLeft
  /\ player.dashVx = PLAYER_DASH_SPEED /\ last.dispX > 0

(***************************************************************************)
(* Shooting                                                                *)
(***************************************************************************)
FireDt == {100, 240, 340}
FireKeys == {Idle, FireHeld}
FireScenes == {SceneEmpty, SceneKill}

NextFire ==
  \/ \E tape \in TapeSet : Reset(tape)
  \/ \E s \in CombatStates, tape \in TapeSet : HostSetState(s, tape)
  \/ \E scn \in FireScenes : Arrange(scn)
  \/ \E dt \in FireDt, inp \in FireKeys, tape \in TapeSet :
       Update(dt, inp, Pointer.x, Pointer.y, tape)

SpecFire == Init /\ [][NextFire]_vars

\* the player bullets created by the step: those with a fresh identity that
\* the bullet loop of the update has seen
ShotsOfStep ==
  {k \in 1..Len(last'.bulletLog) :
     /\ ~last'.bulletLog[k].isEnemy
     /\ last'.bulletLog[k].id >= nextId /\ last'.bulletLog[k].id < nextId'}

\* C8: an update spawns a player bullet only with the trigger held and at
\* least 1/fireRate s of dt since the previous shot (or reset), it spawns
\* one, and not more, in the first update with the trigger held at which
\* that dt is reached; for fireRate 3, 0.34 s fires, a further 0.1 s does
\* not, a further 0.24 s does.
FireRateRespected ==
  [][(last'.kind = "update" /\ last'.ran) =>
       LET gap == Min(ClockCap, fireClock + last'.dt)
           due == gap * player.fireRate >= 1000000
       IN  /\ Cardinality(ShotsOfStep) = (IF last'.inp.fire /\ due THEN 1 ELSE 0)
           /\ last'.fired = (last'.inp.fire /\ due)
           /\ fireClock' = (IF last'.inp.fire /\ due THEN 0 ELSE gap)
           /\ (fireClock = 0 /\ last'.dt = 340 /\ last'.inp.fire) => last'.fired
           /\ (fireClock = 0 /\ last'.dt = 100) => ~last'.fired
           /\ (fireClock = 100 /\ last'.dt = 240 /\ last'.inp.fire)
                => last'.fired]_vars

\* C8 witness: trigger held over 0.34 s, 0.1 s and 0.24 s; the second bullet
\* has just been fired and the first is still in flight
SecondShotOnTime ==
  /\ Ran /\ last.fired /\ last.dt = 240 /\ last.fireGap = 340
  /\ Len(bullets) = 2 /\ enemies = << >>

(***************************************************************************)
(* The run-state gate                                                      *)
(***************************************************************************)
GateDt == {100, 300}
GateKeys == {FireHeld, DashUpLeft}
GateScenes == {SceneContact, SceneHostile}

NextGate ==
  \/ \E tape \in TapeSet : Reset(tape)
  \/ \E s \in GameStates, tape \in TapeSet : HostSetState(s, tape)
  \/ \E scn \in GateScenes : Arrange(scn)
  \/ \E dt \in GateDt, inp \in GateKeys, tape \in TapeSet :
       Update(dt, inp, Pointer.x, Pointer.y, tape)

SpecGate == Init /\ [][NextGate]_vars

TickDt == {-100, 0, 100}
TickKeys == {GoLeft, FireHeld, DashRight}
TickScenes == {SceneCrowd, SceneContact}

NextTicks ==
  \/ \E tape \in TapeSet : Reset(tape)
  \/ \E s \in CombatStates, tape \in TapeSet : HostSetState(s, tape)
  \/ \E scn \in TickScenes : Arrange(scn)
  \/ \E dt \in TickDt, inp \in TickKeys, tape \in TapeSet :
       Update(dt, inp, Pointer.x, Pointer.y, tape)

SpecTicks == Init /\ [][NextTicks]_vars

\* C11: an update with a negative dt leaves the world that update(0, ...)
\* with the same keys and pointer leaves.
NegativeDtIsZeroDt ==
  [][(last'.kind = "update" /\ last'.ran /\ last'.dt < 0) =>
       \E tape \in TapeSet :
         \E r \in {UpdateResult(0, last'.inp, Pointer.x, Pointer.y, tape)} :
           /\ player' = r.player /\ enemies' = r.enemies
           /\ bullets' = r.bullets
           /\ currentWave' = r.currentWave /\ waveTimer' = r.waveTimer]_vars

\* C12: an update with dt = 0 leaves the player, every enemy and every
\* bullet where it was.
ZeroDtMovesNothing ==
  [][(last'.kind = "update" /\ last'.ran /\ last'.dt = 0) =>
       /\ player'.x = player.x /\ player'.y = player.y
       /\ \A i \in 1..Len(enemies), j \in 1..Len(enemies') :
            enemies[i].id = enemies'[j].id =>
              enemies'[j].x = enemies[i].x /\ enemies'[j].y = enemies[i].y
       /\ \A i \in 1..Len(bullets), j \in 1..Len(bullets') :
            bullets[i].id = bullets'[j].id =>
              bullets'[j].x = bullets[i].x /\ bullets'[j].y = bullets[i].y]_vars

(***************************************************************************)
(* Hits: who is damaged by what                                            *)
(***************************************************************************)
HitDt == {100, 600}
HitKeys == {Idle, FireHeld}
HitScenes == {SceneCrowd, SceneSwarm, SceneLethal, SceneHostile,
              SceneFriendly, SceneVolley}

NextHits ==
  \/ \E tape \in TapeSet : Reset(tape)
  \/ \E s \in CombatStates, tape \in TapeSet : HostSetState(s, tape)
  \/ \E scn \in HitScenes : Arrange(scn)
  \/ \E dt \in HitDt, inp \in HitKeys, tape \in TapeSet :
       Update(dt, inp, Pointer.x, Pointer.y, tape)

SpecHits == Init /\ [][NextHits]_vars

\* C13: a player bullet that after its translation is in bounds, overlaps
\* no obstacle and overlaps an enemy takes exactly its damage from exactly
\* one enemy, the first it overlaps in list order, starts that enemy's hit
\* flash, and is removed in the same update.
OneBulletOneEnemy ==
  \A k \in 1..Len(last.bulletLog) :
    LET e == last.bulletLog[k]
    IN  /\ Cardinality(e.victims) <= 1
        /\ (~e.isEnemy /\ ~e.out /\ ~e.obsHit /\ e.first # 0) =>
              /\ e.victims = {[id |-> e.first, loss |-> e.damage,
                               flash |-> HIT_FLASH]}
              /\ e.gone
              /\ \A i \in 1..Len(bullets) : bullets[i].id # e.id

\* C13 witness: the bullet overlaps both enemies of the crowd and strikes
\* the first
BulletStrikesFirstOfTwo ==
  \E k \in 1..Len(last.bulletLog) :
    /\ ~last.bulletLog[k].isEnemy
    /\ last.bulletLog[k].overlapped = {101, 102}
    /\ last.bulletLog[k].first = 101
    /\ \E i, j \in 1..Len(enemies) :
         /\ enemies[i].id = 101 /\ enemies[i].hp = 20
         /\ enemies[j].id = 102 /\ enemies[j].hp = 30

\* the damage sources of the last update that lowered, or were entitled to
\* lower, the player's hp: touching enemies and enemy bullets
ContactHits == {k \in 1..Len(last.contactLog) : last.contactLog[k].vulnerable}

BulletHits == {k \in 1..Len(last.bulletLog) : last.bulletLog[k].hitPlayer}

\* C14: in one update an enemy that touches a player neither dashing nor in
\* grace takes exactly its damage, floored at 0, from the player's hp and
\* starts the 1.0 s grace; an enemy that touches an invulnerable player
\* takes nothing; and at most one source, enemy or enemy bullet, lowers the
\* player's hp in the update.
OneHitPerUpdate ==
  Ran =>
    /\ \A k \in 1..Len(last.contactLog) :
         LET c == last.contactLog[k]
         IN  IF c.vulnerable
             THEN /\ c.loss = c.hpAt - Max(0, c.hpAt - c.damage)
                  /\ c.grace = GRACE_DURATION
             ELSE c.loss = 0
    /\ Cardinality(ContactHits) + Cardinality(BulletHits) <= 1
    /\ last.hurts = Cardinality(ContactHits) + Cardinality(BulletHits)
    /\ \/ /\ ContactHits = {} /\ BulletHits = {}
          /\ player.hp = last.hpBefore
       \/ \E k \in ContactHits :
            /\ player.hp = Max(0, last.hpBefore - last.contactLog[k].damage)
            /\ player.invulnerabilityTimer = GRACE_DURATION
       \/ \E k \in BulletHits :
            /\ player.hp = Max(0, last.hpBefore - last.bulletLog[k].damage)
            /\ player.invulnerabilityTimer = GRACE_DURATION

\* C14 witness: of the two enemies and the enemy bullet that all overlap the
\* player in one update, the first enemy alone takes its 10 hp
OneOfThreeSourcesHits ==
  /\ Ran
  /\ Len(last.contactLog) = 2
  /\ last.contactLog[1].vulnerable /\ last.contactLog[1].loss = 10
  /\ ~last.contactLog[2].vulnerable /\ last.contactLog[2].damage = 60
  /\ \E k \in 1..Len(last.bulletLog) :
       /\ last.bulletLog[k].isEnemy /\ last.bulletLog[k].touchedPlayer
       /\ ~last.bulletLog[k].hitPlayer
  /\ last.hpBefore = PLAYER_MAX_HP
  /\ player.hp = PLAYER_MAX_HP - 10

\* C15: an enemy bullet changes no enemy and is removed only by leaving the
\* arena, by an obstacle or by hitting the player; a player bullet changes
\* neither the player's hp nor the grace timer and is removed only by
\* leaving the arena, by an obstacle or by striking an enemy.
BulletsHarmOtherSideOnly ==
  \A k \in 1..Len(last.bulletLog) :
    LET e == last.bulletLog[k]
    IN  IF e.isEnemy
        THEN /\ e.victims = {}
             /\ e.hitEnemy = 0
             /\ e.gone => (e.out \/ e.obsHit \/ e.hitPlayer)
        ELSE /\ e.playerLoss = 0
             /\ ~e.graceSet
             /\ ~e.hitPlayer
             /\ e.gone => (e.out \/ e.obsHit \/ e.hitEnemy # 0)

\* C15 witness: an enemy bullet in bounds overlaps an enemy, which keeps its
\* hp, and the bullet stays in flight
EnemyBulletPassesEnemy ==
  \E k \in 1..Len(last.bulletLog) :
    /\ last.bulletLog[k].isEnemy
    /\ ~last.bulletLog[k].out /\ ~last.bulletLog[k].obsHit
    /\ 101 \in last.bulletLog[k].overlapped
    /\ ~last.bulletLog[k].gone
    /\ \E i \in 1..Len(bullets) : bullets[i].id = last.bulletLog[k].id
    /\ \E j \in 1..Len(enemies) : enemies[j].id = 101 /\ enemies[j].hp = 100

\* a player bullet in bounds overlaps a vulnerable player, who keeps all hp,
\* and the bullet stays in flight
PlayerBulletPassesPlayer ==
  \E k \in 1..Len(last.bulletLog) :
    /\ ~last.bulletLog[k].isEnemy
    /\ ~last.bulletLog[k].out /\ ~last.bulletLog[k].obsHit
    /\ last.bulletLog[k].touchedPlayer /\ last.bulletLog[k].vulnerable
    /\ ~last.bulletLog[k].gone
    /\ \E i \in 1..Len(bullets) : bullets[i].id = last.bulletLog[k].id
    /\ player.hp = PLAYER_MAX_HP

\* C16: the update in which the player's hp reaches 0 puts the engine in the
\* game-over run state, and an update called while hp is 0 changes nothing
\* of the world.
GameOverAtZeroHp ==
  [][/\ (last'.kind = "update" /\ player.hp > 0 /\ player'.hp = 0)
          => state' = "GAMEOVER"
     /\ (last'.kind = "update" /\ player.hp = 0) => UNCHANGED world]_vars

\* the player is dead, the engine is still in RUN state and the update just
\* made has run past the gate
DeadPlayerStillSimulated ==
  /\ Ran
  /\ last.hpBefore = 0
  /\ player.hp = 0
  /\ state = "RUN"

(***************************************************************************)
(* Waves: what spawnWave creates, and where                                *)
(***************************************************************************)
WaveDt == {900, 2000}
WaveKeys == {Idle, GoUp}
WaveTapes == {Tape(500, 500), Tape(130, 270)}
WaveStates == {"RUN"}

\* a short walk up, or a long wait
WaveMoves ==
  {move \in [dt : WaveDt, inp : WaveKeys] :
     move.inp = GoUp <=> move.dt = 900}

\* the wave numbers over which the size formula is compared
WaveCap == 12

NextWaves ==
  \/ \E tape \in WaveTapes : Reset(tape)
  \/ \E s \in WaveStates, tape \in WaveTapes : HostSetState(s, tape)
  \/ ClearEnemies
  \/ \E move \in WaveMoves, tape \in WaveTapes :
       Update(move.dt, move.inp, Pointer.x, Pointer.y, tape)

SpecWaves == Init /\ [][NextWaves]_vars

\* Math.floor(1.5 * wave)
FloorOfThreeHalves(wave) ==
  CHOOSE n \in 0..(2 * wave) : 2 * n <= 3 * wave /\ 3 * wave < 2 * (n + 1)

\* the types among the enemies the last step spawned
SpawnedTypes == {last.spawned[k].type : k \in 1..Len(last.spawned)}

\* C17: every enemy spawned for wave 1 is a CHASER, every enemy spawned for
\* wave 2 is a CHASER or a SHOOTER, and a TANK is spawned only for a wave
\* numbered 3 or more.
WaveComposition ==
  /\ SpawnedTypes \subseteq {"CHASER", "SHOOTER", "TANK"}
  /\ currentWave = 1 => SpawnedTypes \subseteq {"CHASER"}
  /\ currentWave = 2 => SpawnedTypes \subseteq {"CHASER", "SHOOTER"}
  /\ "TANK" \in SpawnedTypes => currentWave >= 3

\* C17 witness: an update spawns wave 3 with all three types in it
ThirdWaveOfAllTypes ==
  /\ Ran
  /\ currentWave = 3
  /\ SpawnedTypes = {"CHASER", "SHOOTER", "TANK"}

\* an update spawns wave 2 with both of its types in it
SecondWaveOfBothTypes ==
  /\ Ran
  /\ currentWave = 2
  /\ SpawnedTypes = {"CHASER", "SHOOTER"}

\* C18: the wave size 2 + floor(1.5 * wave) never decreases from one wave
\* to the next, is 3 for wave 1, and a step that spawns a wave creates
\* exactly that many enemies, all of which are live after the step but
\* those killed in it.
WaveSizeMonotone ==
  /\ \A w \in 1..WaveCap : WaveSize(w) <= WaveSize(w + 1)
  /\ \A w \in 1..WaveCap : WaveSize(w) = 2 + FloorOfThreeHalves(w)
  /\ last.spawned # << >> =>
       /\ Len(last.spawned) = 2 + FloorOfThreeHalves(currentWave)
       /\ currentWave = 1 => Len(last.spawned) = 3
       /\ Cardinality({last.spawned[k].id : k \in 1..Len(last.spawned)})
            = Len(last.spawned)
       /\ {enemies[k].id : k \in 1..Len(enemies)}
            = {last.spawned[k].id : k \in 1..Len(last.spawned)} \ last.killed
       /\ Len(enemies) = Len(last.spawned) - Cardinality(last.killed)

\* C18 witness: an update spawns the 6 enemies of wave 3 after the 5 of
\* wave 2
ThirdWaveOfSix ==
  /\ Ran
  /\ currentWave = 3
  /\ Len(last.spawned) = 6
  /\ Len(enemies) = 6

\* the box of entity e lies within the playable arena
InsideArena(e) ==
  /\ e.x - e.width \div 2 >= ARENA_X
  /\ e.x + e.width \div 2 <= ARENA_X + ARENA_WIDTH
  /\ e.y - e.height \div 2 >= ARENA_Y
  /\ e.y + e.height \div 2 <= ARENA_Y + ARENA_HEIGHT

\* C19: no enemy created by a wave spawn, at reset or at a wave transition,
\* overlaps the player's box at the moment it is spawned.
SpawnClearOfPlayer ==
  \A k \in 1..Len(last.spawned) :
    ~checkCollision(last.spawned[k], last.spawnAt)

\* a wave is spawned onto the player, who is hurt in the same update
SpawnedOnPlayerAndHurt ==
  /\ Ran
  /\ \E k \in 1..Len(last.spawned) :
       /\ checkCollision(last.spawned[k], last.spawnAt)
       /\ \E c \in 1..Len(last.contactLog) :
            /\ last.contactLog[c].id = last.spawned[k].id
            /\ last.contactLog[c].loss > 0
  /\ player.hp < last.hpBefore

\* C20: every enemy created by a wave spawn has its centre-based box
\* entirely within the playable arena.
SpawnInsideArena ==
  \A k \in 1..Len(last.spawned) : InsideArena(last.spawned[k])

\* a wave spawn leaves an enemy whose box crosses a wall
SpawnedAcrossWall ==
  \E k \in 1..Len(last.spawned) :
    /\ last.spawned[k].x = ARENA_X
    /\ last.spawned[k].x - last.spawned[k].width \div 2 < ARENA_X

\* a list in the opposite order
Reversed(list) == [k \in 1..Len(list) |-> list[Len(list) + 1 - k]]

\* what the claim compares of an update's result: the player's hp, the hp
\* of every surviving enemy, and the surviving enemies and bullets
Survivors(r) ==
  [hp |-> r.player.hp,
   enemies |-> {<< r.enemies[k].id, r.enemies[k].hp >> :
                  k \in 1..Len(r.enemies)},
   bullets |-> {r.bullets[k].id : k \in 1..Len(r.bullets)}]

\* C21: an update on the enemies (or the bullets) in the opposite list order
\* leaves the same player hp, the same hp of every enemy and the same
\* surviving enemies and bullets as the update that was made.
OrderIndependentUpdate ==
  [][(last'.kind = "update" /\ last'.ran) =>
       \A tape \in TapeSet :
         LET r == UpdateResult(last'.dt, last'.inp, Pointer.x, Pointer.y, tape)
         IN  (r.player = player' /\ r.enemies = enemies'
                /\ r.bullets = bullets') =>
               /\ Survivors(r) =
                    Survivors(UpdateResultOf(Reversed(enemies), bullets,
                                             last'.dt, last'.inp, Pointer.x,
                                             Pointer.y, tape))
               /\ Survivors(r) =
                    Survivors(UpdateResultOf(enemies, Reversed(bullets),
                                             last'.dt, last'.inp, Pointer.x,
                                             Pointer.y, tape))]_vars

(***************************************************************************)
(* Boxes: checkCollision on small boxes of even and odd sizes              *)
(***************************************************************************)
BoxX == 0..4
BoxY == {0, 2, 3}
BoxWidth == {2, 3}
BoxHeight == {2, 4}
Boxes == [x : BoxX, y : BoxY, width : BoxWidth, height : BoxHeight]

NextBoxes == \E a \in Boxes, b \in Boxes : CallCheckCollision(a, b)

SpecBoxes == Init /\ [][NextBoxes]_vars

\* twice the ends of the interval a centre-based box covers on an axis
Ends2(centre, size) == [lo |-> 2 * centre - size, hi |-> 2 * centre + size]

\* two open intervals have a point in common
OpenMeet(i, j) == Max(i.lo, j.lo) < Min(i.hi, j.hi)

\* two intervals share an end point and nothing else
OnlyTouch(i, j) == i.hi = j.lo \/ j.hi = i.lo

\* C22: checkCollision(a, b) is true exactly when the open intervals of the
\* two centre-based boxes intersect on both axes; it gives the same answer
\* with the arguments swapped, and it is false for boxes that only touch
\* along an edge or at a corner.
CollisionIsOpenOverlap ==
  last.kind = "collide" =>
    LET ax == Ends2(last.a.x, last.a.width)
        ay == Ends2(last.a.y, last.a.height)
        bx == Ends2(last.b.x, last.b.width)
        by == Ends2(last.b.y, last.b.height)
    IN  /\ last.hit = (OpenMeet(ax, bx) /\ OpenMeet(ay, by))
        /\ last.hit = last.hitSwapped
        /\ (OnlyTouch(ax, bx) \/ OnlyTouch(ay, by)) => ~last.hit

\* C22 witness: two boxes that touch at one corner are found apart
CornerTouchIsNoCollision ==
  /\ last.kind = "collide"
  /\ OnlyTouch(Ends2(last.a.x, last.a.width), Ends2(last.b.x, last.b.width))
  /\ OnlyTouch(Ends2(last.a.y, last.a.height), Ends2(last.b.y, last.b.height))
  /\ ~last.hit /\ ~last.hitSwapped

\* a box of odd width overlaps its neighbour by half a unit
HalfUnitOverlap ==
  /\ last.kind = "collide"
  /\ Ends2(last.a.x, last.a.width).hi - Ends2(last.b.x, last.b.width).lo = 1
  /\ last.hit /\ last.hitSwapped

(***************************************************************************)
(* Upgrades: the catalog applied to the player, and the offer              *)
(***************************************************************************)
UpgradeIds == {UPGRADES[k] : k \in 1..Len(UPGRADES)}
OfferCounts == {0, 3, 12}
OfferTapes == {Tape(0, 0), Tape(130, 270), Tape(700, 0)}

NextUpgrades ==
  \/ \E tape \in TapeSet : Reset(tape)
  \/ \E id \in UpgradeIds : ApplyUpgrade(id)
  \/ \E count \in OfferCounts, tape \in OfferTapes :
       GetRandomUpgrades(count, tape)

SpecUpgrades == Init /\ [][NextUpgrades]_vars

\* C23: every upgrade of the catalog is idempotent: applied to the player it
\* has just been applied to, it leaves the player's stats as they are.
UpgradesIdempotent ==
  [][last'.kind = "upgrade" => apply(last'.upgrade, player') = player']_vars

\* the Vitality Boost, applied to a player it was just applied to, would
\* raise maxHp again
BoostAddsAgain ==
  /\ last.kind = "upgrade" /\ last.upgrade = "health_boost"
  /\ player.maxHp = last.before.maxHp + 20
  /\ apply("health_boost", player).maxHp = player.maxHp + 20

\* the stats that are numbers
NumberStats ==
  {"hp", "maxHp", "damage", "fireRate", "speed", "bulletSpread",
   "bulletSpeed", "piercing", "critChance"}

\* C24: an upgrade applied to the player as reset() creates it leaves every
\* number stat a defined number, and the hp within [0, maxHp].
UpgradeSafeOnNewPlayer ==
  (last.kind = "upgrade" /\ last.before = NewPlayer) =>
    /\ \A f \in NumberStats \cap DOMAIN player : player[f] # NaN
    /\ 0 <= player.hp /\ player.hp <= player.maxHp

\* Piercing Rounds leaves the new player's piercing stat NaN
PiercingIsNaN ==
  /\ last.kind = "upgrade" /\ last.upgrade = "piercing"
  /\ last.before = NewPlayer
  /\ player["piercing"] = NaN

\* C25: getRandomUpgrades(count) returns min(count, catalog size) upgrades,
\* each of the catalog and no two the same, and leaves the catalog as it
\* was.
OfferIsSampleWithoutReplacement ==
  last.kind = "offer" =>
    /\ Len(last.offered) = Min(last.count, Len(UPGRADES))
    /\ \A k \in 1..Len(last.offered) : last.offered[k] \in UpgradeIds
    /\ \A j, k \in 1..Len(last.offered) :
         j # k => last.offered[j] # last.offered[k]
    /\ last.catalog = UPGRADES

\* C25 witness: three upgrades are offered out of a shuffle that is not the
\* catalog order
ThreeOfferedShuffled ==
  /\ last.kind = "offer" /\ last.count = 3
  /\ Len(last.offered) = 3
  /\ last.offered # SubSeq(UPGRADES, 1, 3)
  /\ last.offered # << UPGRADES[11], UPGRADES[10], UPGRADES[9] >>

\* more upgrades are asked for than the catalog holds, and all 11 come
WholeCatalogOffered ==
  /\ last.kind = "offer" /\ last.count = 12
  /\ Len(last.offered) = 11

\* the velocity vectors fireBullet gives the player p over the draws of the
\* tapes
SpreadOfShots(p) ==
  {<< fireBullet(p, Rand(tape, 0), 0).vx, fireBullet(p, Rand(tape, 0), 0).vy >>
     : tape \in TapeSet}

\* C26: a player bullet is fired at aimAngle + offset with the offset within
\* [-bulletSpread/2, +bulletSpread/2], with speed bulletSpeed (to within the
\* rounding of a pixel per second and a milliradian) and damage
\* player.damage; with a non-zero bulletSpread the shots of one aim have at
\* least two distinct velocity vectors.
ShotWithinSpread ==
  \A k \in 1..Len(last.shots) :
    LET shot == last.shots[k]
    IN  /\ ~shot.isEnemy
        /\ shot.damage = player.damage
        /\ \E offset \in -(player.bulletSpread \div 2)
                            ..(player.bulletSpread \div 2) :
             /\ shot.vx = Div(Cos(player.aimAngle + offset)
                                * player.bulletSpeed, 1000)
             /\ shot.vy = Div(Sin(player.aimAngle + offset)
                                * player.bulletSpeed, 1000)
        /\ Abs(Sqrt(shot.vx * shot.vx + shot.vy * shot.vy)
                 - player.bulletSpeed) <= 2
        /\ player.bulletSpread # 0 => Cardinality(SpreadOfShots(player)) >= 2

\* C26 witness: a shot leaves off the aim line, by a spread draw that is
\* neither zero nor the extreme
ShotOffAim ==
  /\ Ran
  /\ Len(last.shots) = 1
  /\ player.bulletSpread = PLAYER_BULLET_SPREAD
  /\ << last.shots[1].vx, last.shots[1].vy >> =
       << Div(Cos(player.aimAngle - 37) * player.bulletSpeed, 1000),
          Div(Sin(player.aimAngle - 37) * player.bulletSpeed, 1000) >>
  /\ << last.shots[1].vx, last.shots[1].vy >> #
       << Div(Cos(player.aimAngle) * player.bulletSpeed, 1000),
          Div(Sin(player.aimAngle) * player.bulletSpeed, 1000) >>

(***************************************************************************)
(* Moves: walking and dashing among obstacles and walls                    *)
(***************************************************************************)
MoveDt == {100, 1250}
MoveKeys == {GoUpRight, DashRight, DashNowhere}
MoveScenes == {SceneCorner, SceneContact}

NextMoves ==
  \/ \E tape \in TapeSet : Reset(tape)
  \/ \E s \in CombatStates, tape \in TapeSet : HostSetState(s, tape)
  \/ \E scn \in MoveScenes : Arrange(scn)
  \/ \E dt \in MoveDt, inp \in MoveKeys, tape \in TapeSet :
       Update(dt, inp, Pointer.x, Pointer.y, tape)

SpecMoves == Init /\ [][NextMoves]_vars

\* the player p overlaps no obstacle
ClearOfObstacles(p) ==
  \A k \in 1..Len(obstacles) : ~checkCollision(p, obstacles[k])

\* C27: a player whose box overlaps no obstacle before an update with
\* dt >= 0 overlaps no obstacle after it.
ObstaclesImpassable ==
  [][(last'.kind = "update" /\ last'.ran /\ last'.dt >= 0
        /\ ClearOfObstacles(player)) => ClearOfObstacles(player')]_vars

\* the player has walked into an obstacle
PlayerInsideObstacle ==
  /\ Ran
  /\ ~last.dashing /\ ~last.dashStarted
  /\ ~ClearOfObstacles(player)

\* C28: after every update isInvulnerable is true exactly when dashTimer is
\* above 0, whatever the post-hit grace timer reads.
ShieldIffDashing ==
  Ran => (player.isInvulnerable <=> player.dashTimer > 0)

\* C28 witness: a dash is under way while the grace of an earlier hit runs
DashDuringGrace ==
  /\ Ran
  /\ player.isInvulnerable /\ player.dashTimer > 0
  /\ player.invulnerabilityTimer > 0
  /\ player.hp < PLAYER_MAX_HP

\* the grace of a hit runs and the player, not dashing, has no shield
GraceWithoutShield ==
  /\ Ran
  /\ ~player.isInvulnerable /\ player.dashTimer = 0
  /\ player.invulnerabilityTimer > 0

\* the keys of inp cancel to no direction
NoDirection(inp) == inp.up = inp.down /\ inp.left = inp.right

\* C29: an update starts a dash only if the player was not dashing, the
\* dash key is down, the keys give a direction and the cooldown, after
\* this update's decrement, is at or below 0; two dash starts are at least
\* PLAYER_DASH_COOLDOWN of dt apart; and the dash key without a direction
\* starts no dash and leaves the cooldown to run down.
DashNeedsCooldown ==
  [][(last'.kind = "update" /\ last'.ran) =>
       /\ last'.dashStarted =>
            /\ player.dashTimer <= 0
            /\ last'.inp.space
            /\ ~NoDirection(last'.inp)
            /\ TickDown(player.dashCooldown, last'.dt) <= 0
            /\ last'.dashGap # Off => last'.dashGap >= PLAYER_DASH_COOLDOWN
       /\ (last'.inp.space /\ NoDirection(last'.inp)
             /\ player.dashTimer <= 0) =>
            /\ ~last'.dashStarted
            /\ player'.dashTimer = 0
            /\ player'.dashCooldown
                 = TickDown(player.dashCooldown, last'.dt)]_vars

\* C29 witness: a second dash starts exactly PLAYER_DASH_COOLDOWN after the
\* first
SecondDashOnCooldown ==
  /\ Ran /\ last.dashStarted
  /\ last.dashGap = PLAYER_DASH_COOLDOWN
  /\ player.dashCooldown = PLAYER_DASH_COOLDOWN

\* the dash key is held with opposite directions while the cooldown runs
DashKeyWithoutDirection ==
  /\ Ran /\ last.inp = DashNowhere
  /\ ~last.dashStarted
  /\ player.dashCooldown > 0 /\ player.dashCooldown < PLAYER_DASH_COOLDOWN

\* C30: after construction, after reset and after every update with
\* dt >= 0 the player's box lies within the arena walls.
PlayerInsideArena ==
  (last.kind \in {"init", "reset", "restart"} \/ (Ran /\ last.dt >= 0))
    => InsideArena(player)

\* C30 witness: a dash long enough to cross the wall ends against it
DashStoppedByWall ==
  /\ Ran
  /\ last.dashing \/ last.dashStarted
  /\ last.dispX > ARENA_WIDTH \div 2
  /\ player.x = ARENA_X + ARENA_WIDTH - player.width \div 2

(***************************************************************************)
(* The enemies: movement, separation, shooting                             *)
(***************************************************************************)
EnemyDt == {1000, 2000}
EnemyKeys == {Idle, GoUp}
EnemyScenes == {SceneHuddle, SceneGallery}
EnemyStates == {"RUN"}

NextEnemies ==
  \/ \E tape \in TapeSet : Reset(tape)
  \/ \E s \in EnemyStates, tape \in TapeSet : HostSetState(s, tape)
  \/ \E scn \in EnemyScenes : Arrange(scn)
  \/ \E dt \in EnemyDt, inp \in EnemyKeys, tape \in TapeSet :
       Update(dt, inp, Pointer.x, Pointer.y, tape)

SpecEnemies == Init /\ [][NextEnemies]_vars

\* the enemy of the list es that is the object e (0 when it is not there)
Before(es, e) ==
  LET S == {k \in 1..Len(es) : es[k].id = e.id}
  IN  IF S = {} THEN 0 ELSE CHOOSE k \in S : TRUE

\* C31: after every update, every live enemy's full box lies within the
\* arena walls and overlaps no obstacle it did not overlap before the
\* update, the separation nudge included.
EnemiesKeptIn ==
  [][last'.kind = "update" /\ last'.ran =>
       \A k \in 1..Len(enemies') :
         /\ InsideArena(enemies'[k])
         /\ \A o \in 1..Len(obstacles') :
              checkCollision(enemies'[k], obstacles'[o]) =>
                /\ Before(enemies, enemies'[k]) > 0
                /\ checkCollision(enemies[Before(enemies, enemies'[k])],
                                  obstacles[o])]_vars

\* the separation nudge has pushed an enemy that stood against the left
\* wall one pixel into it
NudgedIntoWall ==
  /\ last.kind = "update" /\ last.ran
  /\ \E k \in 1..Len(enemies) :
       /\ enemies[k].vx = 0 /\ enemies[k].vy = 0
       /\ enemies[k].x = ARENA_X + enemies[k].width \div 2 - 1

\* the velocity (vx, vy) has the length speed, to the rounding of the
\* fixed point (the distance it is divided by is a whole number of pixels)
AtSpeed(vx, vy, speed) ==
  LET slack == speed \div 32 + 2
  IN  /\ vx # NaN /\ vy # NaN
      /\ vx * vx + vy * vy >= Max(0, speed - slack) * Max(0, speed - slack)
      /\ vx * vx + vy * vy <= (speed + slack) * (speed + slack)

\* the velocity (vx, vy) points along (dx, dy), to the rounding of the
\* fixed point; a velocity of length 0 has no direction to speak of
Along(vx, vy, dx, dy, speed) ==
  /\ vx # NaN /\ vy # NaN
  /\ speed = 0 \/ (/\ Abs(vx * dy - vy * dx) <= Abs(dx) + Abs(dy)
                    /\ vx * dx + vy * dy > 0)

\* what the claim says of the velocity e1 has after an update that found
\* the enemy at e and left the player at p
VelocityByType(e, e1, p) ==
  LET dx == p.x - e.x
      dy == p.y - e.y
      d2 == dx * dx + dy * dy
      far == e.attackRange + SHOOTER_BUFFER
      near == e.attackRange - SHOOTER_BUFFER
      toward == /\ Along(e1.vx, e1.vy, dx, dy, e.speed)
                /\ AtSpeed(e1.vx, e1.vy, e.speed)
      away == /\ Along(e1.vx, e1.vy, -dx, -dy, e.speed)
              /\ AtSpeed(e1.vx, e1.vy, e.speed)
  IN  IF e.type = "SHOOTER"
      THEN IF d2 > far * far THEN toward
           ELSE IF d2 < near * near THEN away
           ELSE e1.vx = 0 /\ e1.vy = 0
      ELSE toward

\* the enemies that are at a place both before and after the step, as pairs
\* of the indices before and after
Tracked ==
  {<< Before(enemies, enemies'[k]), k >> :
     k \in {n \in 1..Len(enemies') :
             /\ Before(enemies, enemies'[n]) > 0
             /\ ~IsNaN(enemies[Before(enemies, enemies'[n])])}}

\* C35: a SHOOTER moves toward the player at its speed when farther than
\* attackRange + 50, away from the player when nearer than attackRange - 50,
\* and not at all in between; a CHASER or a TANK always moves straight
\* toward the player at its speed.
VelocityFollowsType ==
  [][last'.kind = "update" /\ last'.ran =>
       \A t \in Tracked :
         VelocityByType(enemies[t[1]], enemies'[t[2]], player')]_vars

\* the same of the enemies whose centre is not the player's
VelocityFollowsTypeApart ==
  [][last'.kind = "update" /\ last'.ran =>
       \A t \in Tracked :
         (enemies[t[1]].x # player'.x \/ enemies[t[1]].y # player'.y) =>
           VelocityByType(enemies[t[1]], enemies'[t[2]], player')]_vars

\* a shooter has been found on the player's centre and its velocity is not
\* a number
ShooterVelocityIsNaN ==
  /\ last.kind = "update" /\ last.ran
  /\ \E k \in 1..Len(enemies) :
       enemies[k].type = "SHOOTER" /\ enemies[k].vx = NaN

\* C37: when an enemy's centre coincides with the player's, its desired
\* velocity is well defined whatever its type, and its position is still a
\* number after the update.
CoincidentEnemyStaysFinite ==
  [][last'.kind = "update" /\ last'.ran =>
       \A t \in Tracked :
         (/\ enemies[t[1]].x = player'.x
          /\ enemies[t[1]].y = player'.y) =>
           /\ enemies'[t[2]].vx # NaN /\ enemies'[t[2]].vy # NaN
           /\ ~IsNaN(enemies'[t[2]])]_vars

\* a shooter's position is not a number
ShooterLost ==
  \E k \in 1..Len(enemies) : enemies[k].type = "SHOOTER" /\ IsNaN(enemies[k])

\* a chaser found on the player's centre stands still there
ChaserRestsOnPlayer ==
  /\ last.kind = "update" /\ last.ran
  /\ \E k \in 1..Len(enemies) :
       /\ enemies[k].type = "CHASER" /\ enemies[k].speed > 0
       /\ enemies[k].x = player.x /\ enemies[k].y = player.y
       /\ enemies[k].vx = 0 /\ enemies[k].vy = 0

\* the velocity (vx, vy) points along (dx, dy): the sine
\* of the angle between them is below a hundredth, a fifth of the spread of
\* a player's shot
Aimed(vx, vy, dx, dy) ==
  /\ vx # NaN /\ vy # NaN
  /\ vx * dx + vy * dy > 0
  /\ Abs(vx * dy - vy * dx) * 100
       <= (Sqrt(vx * vx + vy * vy) + 1) * (Sqrt(dx * dx + dy * dy) + 1)

DeadEnemyNeverRead ==
  /\ \A n \in 1..Len(enemies) : ~enemies[n].markedForDeletion
  /\ last.kind = "update" /\ last.ran =>
       \A k \in 1..Len(last.bulletLog) : ~last.bulletLog[k].struckDead

\* two bullets are gone on one enemy that the first of them had killed
DeadEnemyAbsorbsBullet ==
  /\ last.kind = "update" /\ last.ran
  /\ \E j, k \in 1..Len(last.bulletLog) :
       /\ j < k
       /\ last.bulletLog[j].hitEnemy \in last.killed
       /\ ~last.bulletLog[j].struckDead
       /\ last.bulletLog[k].hitEnemy = last.bulletLog[j].hitEnemy
       /\ last.bulletLog[k].struckDead /\ last.bulletLog[k].gone

\* the bullets the bullet loop of the step finds: those there before it,
\* the shooters' and the player's shot
AtBulletStep == bullets \o [k \in 1..Len(last'.shotLog) |->
                              last'.shotLog[k].bullet] \o last'.shots

\* C33: removal while iterating skips nothing: in every update each bullet
\* live at the bullet step is translated and collision-checked exactly
\* once, and when the update returns no bullet and no enemy of the live
\* sets is flagged for deletion.
NoBulletSkipped ==
  [][last'.kind = "update" /\ last'.ran =>
       /\ Len(last'.bulletLog) = Len(AtBulletStep)
       /\ \A k \in 1..Len(AtBulletStep) :
            \E n \in 1..Len(last'.bulletLog) :
              last'.bulletLog[n].id = AtBulletStep[k].id
       /\ \A k \in 1..Len(bullets') :
            /\ ~bullets'[k].markedForDeletion
            /\ \E n \in 1..Len(AtBulletStep) :
                 bullets'[k] = Translated(AtBulletStep[n], last'.dt)
       /\ \A k \in 1..Len(enemies') : ~enemies'[k].markedForDeletion]_vars

\* an update has removed the first of two bullets and kept the second,
\* which has moved
FirstOfTwoBulletsRemoved ==
  /\ last.kind = "update" /\ last.ran
  /\ Len(last.bulletLog) = 2
  /\ last.bulletLog[2].gone /\ ~last.bulletLog[1].gone
  /\ Len(bullets) = 1
  /\ bullets[1].vx # 0

\* C34: update never adds, removes or moves an obstacle: the collection is
\* the same before and after every update; of the engine's methods only
\* reset() changes it, by emptying it.  (The tests and the host set the
\* obstacles up by writing the field before the first update.)
ObstaclesStatic ==
  [][/\ last'.kind = "update" => obstacles' = obstacles
     /\ last'.kind \in {"reset", "restart"} => obstacles' = << >>
     /\ obstacles' # obstacles =>
          last'.kind \in {"reset", "restart", "arrange"}]_vars

\* an update in which an obstacle has stopped the player's step to the
\* right has left both obstacles where they were
ObstaclesOutlastUpdate ==
  /\ last.kind = "update" /\ last.ran
  /\ last.dispX > 0 /\ player.x = NewPlayer.x
  /\ obstacles = SceneCorner.obstacles

WaveTimerRunning ==
  /\ last.kind = "update" /\ last.ran
  /\ enemies = << >>
  /\ waveTimer > 0 /\ waveTimer = last.emptyFor

(***************************************************************************)
(* Enemy bullets and the invulnerable player                               *)
(***************************************************************************)
ShieldDt == {100, 250, 500}
ShieldKeys == {Idle, DashRight}
ShieldScenes == {SceneAmbush, SceneCrossfire}
ShieldStates == {"RUN"}

NextShield ==
  \/ \E tape \in TapeSet : Reset(tape)
  \/ \E s \in ShieldStates, tape \in TapeSet : HostSetState(s, tape)
  \/ \E scn \in ShieldScenes : Arrange(scn)
  \/ \E dt \in ShieldDt, inp \in ShieldKeys, tape \in TapeSet :
       Update(dt, inp, Pointer.x, Pointer.y, tape)

SpecShield == Init /\ [][NextShield]_vars

\* the record of a bullet that came upon the dashing or graced player
MetShield(entry) ==
  /\ entry.isEnemy /\ entry.touchedPlayer /\ ~entry.vulnerable
  /\ ~entry.out /\ ~entry.obsHit

\* C40: an enemy bullet that overlaps the player while the player is
\* dashing or in post-hit grace deals no damage and is not consumed: it
\* stays in the live bullet set and keeps moving (and can damage the
\* player in a later update, once the invulnerability has ended).
ShieldedBulletPasses ==
  [][last'.kind = "update" /\ last'.ran =>
       \A n \in 1..Len(last'.bulletLog) :
         MetShield(last'.bulletLog[n]) =>
           /\ last'.bulletLog[n].playerLoss = 0
           /\ ~last'.bulletLog[n].hitPlayer
           /\ ~last'.bulletLog[n].gone
           /\ \E k \in 1..Len(AtBulletStep), m \in 1..Len(bullets') :
                /\ AtBulletStep[k].id = last'.bulletLog[n].id
                /\ bullets'[m] = Translated(AtBulletStep[k], last'.dt)]_vars

\* the bullet of the ambush, which has been on the player since before the
\* dash that ended in this update, takes the player's hp now
ShieldedBulletHitsLater ==
  /\ last.kind = "update" /\ last.ran
  /\ obstacles = SceneAmbush.obstacles
  /\ player.x = NewPlayer.x /\ player.y = NewPlayer.y
  /\ last.dashAge # Off /\ last.dashAge > 0
  /\ ~player.isInvulnerable
  /\ \E n \in 1..Len(last.bulletLog) :
       /\ last.bulletLog[n].id = 201
       /\ last.bulletLog[n].hitPlayer
       /\ last.bulletLog[n].playerLoss > 0

\* the bullet is on the dashing player and stays in the live set
BulletMeetsDash ==
  /\ last.kind = "update" /\ last.ran
  /\ player.isInvulnerable
  /\ \E n \in 1..Len(last.bulletLog) :
       MetShield(last.bulletLog[n]) /\ ~last.bulletLog[n].gone

\* the second bullet of the crossfire, passed over while the first one's
\* grace lasted, takes the player's hp a second later
GracedBulletHitsLater ==
  /\ last.kind = "update" /\ last.ran
  /\ last.hitGap = GRACE_DURATION
  /\ player.hp = PLAYER_MAX_HP - 20
  /\ bullets = << >>
  /\ \E n \in 1..Len(last.bulletLog) :
       last.bulletLog[n].id = 201 /\ last.bulletLog[n].hitPlayer

(***************************************************************************)
(* The animation loop: frames that keep arriving                           *)
(***************************************************************************)
LiveDt == {500, 2000}
\* the frames that find enemies last this long; the wait for a wave is made
\* of frames of either length above, in any order
PaceDt == {500}
LiveStates == {"RUN"}
LiveTapes == {Tape(130, 270)}

NextLive ==
  \/ \E s \in LiveStates, tape \in LiveTapes : HostSetState(s, tape)
  \/ ClearEnemies
  \/ \E dt \in LiveDt, tape \in LiveTapes :
       /\ enemies = << >> \/ dt \in PaceDt
       /\ Frame(dt, tape)

\* requestAnimationFrame schedules the next frame from within each frame,
\* and the time between two frames is positive
SpecLive ==
  /\ Init /\ [][NextLive]_vars
  /\ WF_frame(FrameArrives)

\* C38: wave progression is live: if the enemy set is empty in RUN state
\* and updates keep arriving with dt bounded below by a positive constant,
\* then eventually currentWave is incremented and the enemy set is
\* non-empty again.
WaveProgressIsLive ==
  \A n \in 1..(MaxWave + 1) :
    (state = "RUN" /\ enemies = << >> /\ currentWave = n)
      ~> (currentWave = n + 1 /\ enemies # << >>)

\* the third wave has come, two seconds of frames after the second was
\* cleared
ThirdWaveAfterWait ==
  /\ last.kind = "update" /\ last.ran /\ last.waved
  /\ last.emptyFor >= WAVE_DELAY
  /\ currentWave = 3
  /\ enemies # << >>

====
